---- MODULE Spec2Model ----
(***************************************************************************)
(* A model of jtd-ts: the compiled schema nodes of src/src/index.ts, their *)
(* error enumeration, guard, fuzz and schema export, the raw schema        *)
(* compiler, and the helpers isTimestamp / intBounds / isRecord.           *)
(*                                                                         *)
(* JavaScript values are records tagged by the text formatType gives them. *)
(* A string is a TLA+ string.  A number is sign, magnitude in two 16-bit   *)
(* limbs (hi * 65536 + lo) and a fraction in tenths, so that the 32-bit    *)
(* bounds are representable.  An object is the sequence of its own         *)
(* <<key, value>> properties in insertion order; a property read falls     *)
(* through to the members every plain object inherits (ProtoKeys).         *)
(***************************************************************************)
EXTENDS Integers, Sequences, FiniteSets, TLC

VARIABLES
  schema,     \* the raw root document handed to compile ("rest" of line 2211)
  defs,       \* Compiler.defs: the raw definitions object
  validDefs,  \* Compiler.validDefs: the compiled definitions, filled in order
  pc,         \* where the program is: "defs", "root", "done", "failed", ...
  valid,      \* the compiled node the construction returned
  inp,        \* the value handed to the last guard / pathErrors / isTimestamp
  ok,         \* what the last guard call returned: "true", "false", "throw"
  errors,     \* what the last pathErrors enumeration produced
  out         \* the result of the last fuzz / schema / auxiliary call

vars == <<schema, defs, validDefs, pc, valid, inp, ok, errors, out>>

-----------------------------------------------------------------------------
(* JavaScript values *)

Undefined == [t |-> "undefined"]
Null == [t |-> "null"]
Func == [t |-> "function"]
Bool(b) == [t |-> "boolean", b |-> b]
Str(s) == [t |-> "string", s |-> s]
Arr(a) == [t |-> "array", a |-> a]
Obj(e) == [t |-> "object", e |-> e]
Num(neg, hi, lo, frac) == [t |-> "number", neg |-> neg, hi |-> hi, lo |-> lo, frac |-> frac]

\* the number n, for |n| within TLC's integers
IntNum(n) ==
  IF n < 0 THEN Num(TRUE, (0 - n) \div 65536, (0 - n) % 65536, 0)
  ELSE Num(FALSE, n \div 65536, n % 65536, 0)

\* n + 0.5 for n >= 0, -(|n| + 0.5) for n < 0
Half(n) == [IntNum(n) EXCEPT !.frac = 5]

MagLess(a, b) ==
  \/ a.hi < b.hi
  \/ a.hi = b.hi /\ a.lo < b.lo
  \/ a.hi = b.hi /\ a.lo = b.lo /\ a.frac < b.frac

\* a < b on numbers
Less(a, b) ==
  IF a.neg /\ ~b.neg THEN TRUE
  ELSE IF ~a.neg /\ b.neg THEN FALSE
  ELSE IF a.neg THEN MagLess(b, a)
  ELSE MagLess(a, b)

\* n - 1 for an integer n (used for the text "greater than upper - 1")
Pred(n) ==
  IF n.neg THEN
    (IF n.lo = 65535 THEN [n EXCEPT !.hi = n.hi + 1, !.lo = 0] ELSE [n EXCEPT !.lo = n.lo + 1])
  ELSE IF n.hi = 0 /\ n.lo = 0 THEN IntNum(-1)
  ELSE IF n.lo = 0 THEN [n EXCEPT !.hi = n.hi - 1, !.lo = 65535]
  ELSE [n EXCEPT !.lo = n.lo - 1]

RECURSIVE MagText(_, _)
\* the decimal digits of hi * 65536 + lo
MagText(hi, lo) ==
  LET r == ((hi % 10) * 65536) + lo
      qhi == hi \div 10
      qlo == r \div 10
      \* the quotient is qhi * 65536 + qlo, and qlo may exceed one limb
      nhi == qhi + (qlo \div 65536)
      nlo == qlo % 65536
  IN IF nhi = 0 /\ nlo = 0 THEN ToString(r % 10)
     ELSE MagText(nhi, nlo) \o ToString(r % 10)

\* Number.prototype.toFixed() / toPrecision() of the modelled numbers
NumText(n) ==
  (IF n.neg THEN "-" ELSE "") \o MagText(n.hi, n.lo) \o (IF n.frac = 0 THEN "" ELSE ".5")

formatType(obj) == obj.t

isRecord(v) == v.t = "object"

\* the names every plain object inherits from Object.prototype (one stands for all)
ProtoKeys == {"constructor"}

RECURSIVE IndexOf(_, _, _)
\* position of the own property `key` among the entries e from position i on, 0 if none
IndexOf(e, key, i) ==
  IF i > Len(e) THEN 0
  ELSE IF e[i][1] = key THEN i
  ELSE IndexOf(e, key, i + 1)

HasOwn(e, key) == IndexOf(e, key, 1) # 0

\* obj[key] on a plain object with own entries e
Get(e, key) ==
  LET i == IndexOf(e, key, 1)
  IN IF i # 0 THEN e[i][2]
     ELSE IF key \in ProtoKeys THEN Func
     ELSE Undefined

\* key in obj
In(e, key) == HasOwn(e, key) \/ key \in ProtoKeys

\* {...obj, [key]: val}: an own key keeps its position
Put(e, key, val) ==
  LET i == IndexOf(e, key, 1)
  IN IF i # 0 THEN [e EXCEPT ![i] = <<key, val>>]
     ELSE Append(e, <<key, val>>)

RECURSIVE FromEntries(_)
\* Object.fromEntries: a later entry of the same key overrides the earlier one
FromEntries(s) ==
  IF s = <<>> THEN <<>>
  ELSE Put(FromEntries(SubSeq(s, 1, Len(s) - 1)), s[Len(s)][1], s[Len(s)][2])

RECURSIVE Without(_, _)
\* const { [k1]: _, ..., ...rest } = obj: the own entries whose key is not in ks
Without(e, ks) ==
  IF e = <<>> THEN <<>>
  ELSE IF e[1][1] \in ks THEN Without(Tail(e), ks)
  ELSE <<e[1]>> \o Without(Tail(e), ks)

KeySet(e) == {e[i][1] : i \in 1..Len(e)}

-----------------------------------------------------------------------------
(* formatKey: /^[a-zA-Z_][a-zA-Z0-9_]*$/ *)

Letters == {"A", "B", "C", "D", "E", "F", "G", "H", "I", "J", "K", "L", "M",
            "N", "O", "P", "Q", "R", "S", "T", "U", "V", "W", "X", "Y", "Z",
            "a", "b", "c", "d", "e", "f", "g", "h", "i", "j", "k", "l", "m",
            "n", "o", "p", "q", "r", "s", "t", "u", "v", "w", "x", "y", "z", "_"}

Digits == {"0", "1", "2", "3", "4", "5", "6", "7", "8", "9"}

CharAt(s, i) == SubSeq(s, i, i)

IsIdentifier(key) ==
  /\ Len(key) >= 1
  /\ CharAt(key, 1) \in Letters
  /\ \A i \in 2..Len(key) : CharAt(key, i) \in Letters \cup Digits

\* every key rendered as a member access
KeyAfterDot(key) == "." \o key

formatKey(key) == IF IsIdentifier(key) THEN "." \o key ELSE "[\"" \o key \o "\"]"

-----------------------------------------------------------------------------
(* Timestamps and integer bounds (utils) *)

DigitVal(c) ==
  CASE c = "0" -> 0 [] c = "1" -> 1 [] c = "2" -> 2 [] c = "3" -> 3 [] c = "4" -> 4
    [] c = "5" -> 5 [] c = "6" -> 6 [] c = "7" -> 7 [] c = "8" -> 8 [] c = "9" -> 9

AllDigits(s, from, to) == \A i \in from..to : CharAt(s, i) \in Digits

RECURSIVE parseInt(_)
\* parseInt of a string of decimal digits
parseInt(s) ==
  IF Len(s) = 0 THEN 0
  ELSE parseInt(SubSeq(s, 1, Len(s) - 1)) * 10 + DigitVal(CharAt(s, Len(s)))

RECURSIVE SkipDigits(_, _)
\* the first position from i on that holds no digit
SkipDigits(s, i) ==
  IF i <= Len(s) /\ CharAt(s, i) \in Digits THEN SkipDigits(s, i + 1) ELSE i

\* ([zZ]|((\+|-)(\d{2}):(\d{2})))$ from position i
OffsetMatches(s, i) ==
  \/ Len(s) = i /\ CharAt(s, i) \in {"z", "Z"}
  \/ /\ Len(s) = i + 5
     /\ CharAt(s, i) \in {"+", "-"}
     /\ AllDigits(s, i + 1, i + 2)
     /\ CharAt(s, i + 3) = ":"
     /\ AllDigits(s, i + 4, i + 5)

\* timestampRegex.exec(inp) # null
timestampRegex(s) ==
  /\ Len(s) >= 20
  /\ AllDigits(s, 1, 4) /\ CharAt(s, 5) = "-"
  /\ AllDigits(s, 6, 7) /\ CharAt(s, 8) = "-"
  /\ AllDigits(s, 9, 10) /\ CharAt(s, 11) \in {"t", "T"}
  /\ AllDigits(s, 12, 13) /\ CharAt(s, 14) = ":"
  /\ AllDigits(s, 15, 16) /\ CharAt(s, 17) = ":"
  /\ AllDigits(s, 18, 19)
  /\ \/ OffsetMatches(s, 20)
     \/ /\ CharAt(s, 20) = "."
        /\ SkipDigits(s, 21) > 21
        /\ OffsetMatches(s, SkipDigits(s, 21))

\* a leap year every fourth year, without the rule of the centuries
LeapEveryFourthYear(year) == year % 4 = 0

isLeapYear(year) == year % 4 = 0 /\ (year % 100 # 0 \/ year % 400 = 0)

MONTH_LENGTHS == <<31, 0, 31, 30, 31, 30, 31, 31, 30, 31, 30, 31>>

maxDay(year, month) ==
  IF month = 2 THEN (IF isLeapYear(year) THEN 29 ELSE 28)
  ELSE MONTH_LENGTHS[month]

isTimestamp(s) ==
  /\ timestampRegex(s)
  /\ LET year == parseInt(SubSeq(s, 1, 4))
         month == parseInt(SubSeq(s, 6, 7))
         day == parseInt(SubSeq(s, 9, 10))
         hour == parseInt(SubSeq(s, 12, 13))
         minute == parseInt(SubSeq(s, 15, 16))
         second == parseInt(SubSeq(s, 18, 19))
     IN /\ 0 < month
        /\ month <= 12
        /\ day <= maxDay(year, month)
        /\ hour < 24
        /\ minute < 60
        /\ second <= 60

IntTypes == {"int8", "uint8", "int16", "uint16", "int32", "uint32"}

\* intBounds[key] = <<lower, upper>>; 2147483648 is limb 32768, 4294967296 is limb 65536
intBounds(key) ==
  CASE key = "int8" -> <<IntNum(-128), IntNum(128)>>
    [] key = "int16" -> <<IntNum(-32768), IntNum(32768)>>
    [] key = "int32" -> <<Num(TRUE, 32768, 0, 0), Num(FALSE, 32768, 0, 0)>>
    [] key = "uint8" -> <<IntNum(0), IntNum(256)>>
    [] key = "uint16" -> <<IntNum(0), IntNum(65536)>>
    [] key = "uint32" -> <<IntNum(0), Num(FALSE, 65536, 0, 0)>>

-----------------------------------------------------------------------------
(* Compiled nodes.  A node is a record with its class in k and the fields  *)
(* of the class; a raised exception is the record Throw(message).          *)

Throw(msg) == [k |-> "throw", msg |-> msg]

Threw(x) == x.k = "throw"

\* a flag that the wrappers do not copy
DefinitionsOfClassOnly(n) == n.k = "definitions"

\* the `definitions` flag of a node (CompiledDefinitions, or copied by the wrappers)
Definitions(n) ==
  CASE n.k = "definitions" -> TRUE
    [] n.k \in {"nullable", "metadata"} -> n.definitions
    [] OTHER -> FALSE

\* the `nullable` flag of a node
Nullable(n) ==
  CASE n.k = "nullable" -> TRUE
    [] n.k = "metadata" -> n.nullable
    [] OTHER -> FALSE

\* comp.keys # undefined: only CompiledProperties carries keys
HasKeys(n) == n.k = "properties"

CompiledNullable(wrapped) ==
  [k |-> "nullable", wrapped |-> wrapped, definitions |-> Definitions(wrapped)]

nullable(val) == CompiledNullable(val)

CompiledMetadata(wrapped, meta) ==
  [k |-> "metadata", wrapped |-> wrapped, metadata |-> meta,
   definitions |-> Definitions(wrapped), nullable |-> Nullable(wrapped)]

metadata(val, meta) == CompiledMetadata(val, meta)

empty == [k |-> "empty"]

boolean == [k |-> "boolean"]

CompiledInt(key) == [k |-> "int", key |-> key, lower |-> intBounds(key)[1], upper |-> intBounds(key)[2]]

CompiledFloat(key) == [k |-> "float", key |-> key]

string == [k |-> "string"]

timestamp == [k |-> "timestamp"]

\* new Set(values).size
SetSize(vals) == Cardinality({vals[i] : i \in 1..Len(vals)})

\* a constructor that does not count the distinct values
EnumerationOfAny(vals) == [k |-> "enum", vals |-> vals]

enumeration(vals) ==
  IF SetSize(vals) # Len(vals) THEN Throw("enum can't contain duplicates")
  ELSE [k |-> "enum", vals |-> vals]

elements(element) ==
  IF Definitions(element) THEN Throw("definitions can only exist on a root schema")
  ELSE [k |-> "elements", element |-> element]

values(value) ==
  IF Definitions(value) THEN Throw("definitions can only exist on a root schema")
  ELSE [k |-> "values", values |-> value]

\* props, oprops: [has |-> FALSE] for undefined, [has |-> TRUE, e |-> entries] otherwise
NoEntries == [has |-> FALSE, e |-> <<>>]

Entries(e) == [has |-> TRUE, e |-> e]

\* a constructor that does not compare the two maps
PropertiesOfAnyKeys(props, oprops, additionalProperties) ==
  LET keys == KeySet(props.e) \cup KeySet(oprops.e)
  IN IF \E i \in 1..Len(props.e) : Definitions(props.e[i][2])
       THEN Throw("definitions can only exist on a root schema")
     ELSE IF \E i \in 1..Len(oprops.e) : Definitions(oprops.e[i][2])
       THEN Throw("definitions can only exist on a root schema")
     ELSE [k |-> "properties", props |-> props, oprops |-> oprops,
           additional |-> additionalProperties, keys |-> keys]

propertiesEntries(props, oprops, additionalProperties) ==
  LET keys == KeySet(props.e) \cup KeySet(oprops.e)
  IN IF \E i \in 1..Len(props.e) : Definitions(props.e[i][2])
       THEN Throw("definitions can only exist on a root schema")
     ELSE IF \E i \in 1..Len(oprops.e) : Definitions(oprops.e[i][2])
       THEN Throw("definitions can only exist on a root schema")
     ELSE IF Cardinality(keys) # Len(props.e) + Len(oprops.e)
       THEN Throw("properties and optionalProperties keys must be unique")
     ELSE [k |-> "properties", props |-> props, oprops |-> oprops,
           additional |-> additionalProperties, keys |-> keys]

\* properties(props, oprops, additional): Object.entries of the maps given
properties(props, oprops, additionalProperties) ==
  propertiesEntries(props, oprops, additionalProperties)

\* a constructor that takes any branch without definitions
DiscriminatorOfAnyBranches(discriminator, entries) ==
  IF \E i \in 1..Len(entries) : Definitions(entries[i][2])
    THEN Throw("definitions can only exist on a root schema")
  ELSE [k |-> "discriminator", discriminator |-> discriminator,
        mapping |-> FromEntries(entries), entries |-> entries]

discriminatorEntries(discriminator, entries) ==
  IF \E i \in 1..Len(entries) : Definitions(entries[i][2])
    THEN Throw("definitions can only exist on a root schema")
  ELSE IF \E i \in 1..Len(entries) :
            IF HasKeys(entries[i][2]) THEN discriminator \in entries[i][2].keys ELSE TRUE
    THEN Throw("all discriminator mappings must be properties schemas that don't contain discriminator")
  ELSE [k |-> "discriminator", discriminator |-> discriminator,
        mapping |-> FromEntries(entries), entries |-> entries]

CompiledDefinitions(ds, val) == [k |-> "definitions", defs |-> ds, val |-> val]

CompiledRef(ref, val) == [k |-> "ref", ref |-> ref, val |-> val]

\* a reference resolved against the table as it stands when the reference is compiled
EagerCompiledRef(valids, ref) ==
  IF HasOwn(valids, ref) THEN CompiledRef(ref, valids[IndexOf(valids, ref, 1)][2])
  ELSE Throw("ref " \o ref \o " was not in definitions")

\* new LazyCompiledRef(valids, ref): the node keeps the table itself, not a copy of
\* what it holds now, and looks the name up when it is used
LazyCompiledRef(valids, ref) == [k |-> "lazyref", ref |-> ref]

-----------------------------------------------------------------------------
(* pathErrors: the error enumeration.  The result is the sequence of the   *)
(* entries yielded, in order, and the exception that ended the enumeration *)
(* ("" when it ran to its end).  An entry is a path (innermost accessor    *)
(* first, as the code pushes them) and a message.                          *)

Done(errs) == [errs |-> errs, thrown |-> ""]

Raise(name) == [errs |-> <<>>, thrown |-> name]

Err(path, msg) == [path |-> path, msg |-> msg]

One(path, msg) == Done(<<Err(path, msg)>>)

\* the entries of r1, then those of r2 unless r1 ended in an exception
Then(r1, r2) ==
  IF r1.thrown # "" THEN r1
  ELSE [errs |-> r1.errs \o r2.errs, thrown |-> r2.thrown]

\* path.push(seg) on every entry of r
Pushed(r, seg) ==
  [errs |-> [i \in 1..Len(r.errs) |-> Err(Append(r.errs[i].path, seg), r.errs[i].msg)],
   thrown |-> r.thrown]

\* the message of every entry of r followed by suffix
Suffixed(r, suffix) ==
  [errs |-> [i \in 1..Len(r.errs) |-> Err(r.errs[i].path, r.errs[i].msg \o suffix)],
   thrown |-> r.thrown]

RECURSIVE JoinKeys(_)
\* keys.join(", ")
JoinKeys(ks) ==
  IF Len(ks) = 0 THEN ""
  ELSE IF Len(ks) = 1 THEN ks[1]
  ELSE ks[1] \o ", " \o JoinKeys(Tail(ks))

KeySeq(e) == [i \in 1..Len(e) |-> e[i][1]]

\* LazyCompiledRef.#validator: this.#valids[this.#ref], raising when undefined
validator(valids, ref) ==
  LET val == Get(valids, ref)
  IN IF val = Undefined
       THEN Throw("ref was not in definitions after ref builder was finished")
     ELSE val

\* an enumeration whose upper bound is inclusive
ErrorsAboveUpperOnly(node, v) ==
  IF v.t # "number" THEN One(<<>>, formatType(v) \o " is not a number")
  ELSE IF v.frac # 0 THEN One(<<>>, NumText(v) \o " is not an integer")
  ELSE IF Less(v, node.lower)
    THEN One(<<>>, NumText(v) \o " is less than " \o NumText(node.lower))
  ELSE IF Less(node.upper, v)
    THEN One(<<>>, NumText(v) \o " is greater than " \o NumText(Pred(node.upper)))
  ELSE Done(<<>>)

\* CompiledInt.pathErrors
CompiledIntErrors(node, v) ==
  IF v.t # "number" THEN One(<<>>, formatType(v) \o " is not a number")
  ELSE IF v.frac # 0 THEN One(<<>>, NumText(v) \o " is not an integer")
  ELSE IF Less(v, node.lower)
    THEN One(<<>>, NumText(v) \o " is less than " \o NumText(node.lower))
  ELSE IF ~Less(v, node.upper)
    THEN One(<<>>, NumText(v) \o " is greater than " \o NumText(Pred(node.upper)))
  ELSE Done(<<>>)

RECURSIVE pathErrors(_, _, _, _)
RECURSIVE ElementsErrors(_, _, _, _)
RECURSIVE ValuesErrors(_, _, _, _)
RECURSIVE PropsErrors(_, _, _, _)
RECURSIVE OpropsErrors(_, _, _, _)

RECURSIVE ElementsFromTheEnd(_, _, _, _)
\* a loop over the elements that yields the entries of the last element first
ElementsFromTheEnd(node, a, i, valids) ==
  IF i > Len(a) THEN Done(<<>>)
  ELSE Then(ElementsFromTheEnd(node, a, i + 1, valids),
            Pushed(pathErrors(node.element, a[i], valids, Len(valids)),
                   "[" \o ToString(i - 1) \o "]"))

\* the loop of CompiledElements.pathErrors from index i (1-based here, printed 0-based)
ElementsErrors(node, a, i, valids) ==
  IF i > Len(a) THEN Done(<<>>)
  ELSE Then(Pushed(pathErrors(node.element, a[i], valids, Len(valids)),
                   "[" \o ToString(i - 1) \o "]"),
            ElementsErrors(node, a, i + 1, valids))

\* the loop of CompiledValues.pathErrors over Object.entries(inp) from entry i
ValuesErrors(node, e, i, valids) ==
  IF i > Len(e) THEN Done(<<>>)
  ELSE Then(Pushed(pathErrors(node.values, e[i][2], valids, Len(valids)), formatKey(e[i][1])),
            ValuesErrors(node, e, i + 1, valids))

\* the loop over this.#props from entry i
PropsErrors(node, e, i, valids) ==
  IF i > Len(node.props.e) THEN Done(<<>>)
  ELSE LET key == node.props.e[i][1]
           comp == node.props.e[i][2]
           val == Get(e, key)
       IN Then(IF val = Undefined
                 THEN One(<<>>, "required key '" \o key \o "' is missing")
               ELSE Pushed(pathErrors(comp, val, valids, Len(valids)), formatKey(key)),
               PropsErrors(node, e, i + 1, valids))

\* the loop over this.#oprops from entry i
OpropsErrors(node, e, i, valids) ==
  IF i > Len(node.oprops.e) THEN Done(<<>>)
  ELSE LET key == node.oprops.e[i][1]
           comp == node.oprops.e[i][2]
           val == Get(e, key)
       IN Then(IF val # Undefined
                 THEN Pushed(pathErrors(comp, val, valids, Len(valids)), formatKey(key))
               ELSE Done(<<>>),
               OpropsErrors(node, e, i + 1, valids))

\* the loop over Object.keys(inp) when additional properties are not allowed
AdditionalErrors(node, e) ==
  LET bad == SelectSeq(KeySeq(e), LAMBDA key : key \notin node.keys)
  IN Done([i \in 1..Len(bad) |->
             Err(<<formatKey(bad[i])>>,
                 "'" \o bad[i] \o "' is not a valid property and additional properties are not allowed")])

\* an enumeration without the case of null
ErrorsOfWrappedOnly(node, v, valids, hops) ==
  Suffixed(pathErrors(node.wrapped, v, valids, hops),
           " or " \o formatType(v) \o " is not null")

\* CompiledNullable.pathErrors
CompiledNullableErrors(node, v, valids, hops) ==
  IF v # Null
    THEN Suffixed(pathErrors(node.wrapped, v, valids, hops),
                  " or " \o formatType(v) \o " is not null")
  ELSE Done(<<>>)

\* an enumeration that hands the branch the record with its tag left in
ErrorsWithTagLeftIn(node, v, valids) ==
  IF ~isRecord(v) THEN One(<<>>, formatType(v) \o " is not an object")
  ELSE LET key == Get(v.e, node.discriminator)
       IN IF key = Undefined
            THEN One(<<>>, "discriminator key '" \o node.discriminator \o "' is missing")
          ELSE IF key.t # "string"
            THEN One(<<formatKey(node.discriminator)>>, formatType(key) \o " is not a string")
          ELSE LET comp == Get(node.mapping, key.s)
               IN IF comp = Undefined
                    THEN One(<<formatKey(node.discriminator)>>,
                             "'" \o key.s \o "' is not a valid discriminator value ("
                                \o JoinKeys(KeySeq(node.mapping)) \o ")")
                  ELSE IF comp = Func THEN Raise("TypeError")
                  ELSE pathErrors(comp, v, valids, Len(valids))

\* CompiledDiscriminator.pathErrors
CompiledDiscriminatorErrors(node, v, valids) ==
  IF ~isRecord(v) THEN One(<<>>, formatType(v) \o " is not an object")
  ELSE LET key == Get(v.e, node.discriminator)
           rest == Obj(Without(v.e, {node.discriminator}))
       IN IF key = Undefined
            THEN One(<<>>, "discriminator key '" \o node.discriminator \o "' is missing")
          ELSE IF key.t # "string"
            THEN One(<<formatKey(node.discriminator)>>, formatType(key) \o " is not a string")
          ELSE LET comp == Get(node.mapping, key.s)
               IN IF comp = Undefined
                    THEN One(<<formatKey(node.discriminator)>>,
                             "'" \o key.s \o "' is not a valid discriminator value ("
                                \o JoinKeys(KeySeq(node.mapping)) \o ")")
                  ELSE IF comp = Func
                    \* an inherited member is no node: comp.pathErrors is not a function
                    THEN Raise("TypeError")
                  ELSE pathErrors(comp, rest, valids, Len(valids))

\* node.pathErrors(v), with the compiler's table valids for the lazy references.
\* hops is the number of lazy references that may still be followed on this
\* same value: a chain longer than the table repeats a name and never ends,
\* which the runtime ends with a RangeError (call stack exhausted).
pathErrors(node, v, valids, hops) ==
  CASE node.k = "nullable" -> CompiledNullableErrors(node, v, valids, hops)
    [] node.k = "metadata" -> pathErrors(node.wrapped, v, valids, hops)
    [] node.k = "empty" ->
         IF v = Undefined THEN One(<<>>, "value is undefined") ELSE Done(<<>>)
    [] node.k = "boolean" ->
         IF v.t # "boolean" THEN One(<<>>, formatType(v) \o " is not a boolean") ELSE Done(<<>>)
    [] node.k = "int" -> CompiledIntErrors(node, v)
    [] node.k = "float" ->
         IF v.t # "number" THEN One(<<>>, formatType(v) \o " is not number, expected a float")
         ELSE Done(<<>>)
    [] node.k = "string" ->
         IF v.t # "string" THEN One(<<>>, formatType(v) \o " is not a string") ELSE Done(<<>>)
    [] node.k = "timestamp" ->
         IF v.t # "string" THEN One(<<>>, formatType(v) \o " is not a string")
         ELSE IF ~isTimestamp(v.s) THEN One(<<>>, v.s \o " is not a valid timestamp")
         ELSE Done(<<>>)
    [] node.k = "enum" ->
         IF v.t # "string" THEN One(<<>>, formatType(v) \o " is not a string")
         ELSE IF \A i \in 1..Len(node.vals) : node.vals[i] # v.s
           THEN One(<<>>, v.s \o " is not one of " \o JoinKeys(node.vals))
         ELSE Done(<<>>)
    [] node.k = "elements" ->
         IF v.t # "array" THEN One(<<>>, formatType(v) \o " is not an array")
         ELSE ElementsErrors(node, v.a, 1, valids)
    [] node.k = "values" ->
         IF ~isRecord(v) THEN One(<<>>, formatType(v) \o " is not a record")
         ELSE ValuesErrors(node, v.e, 1, valids)
    [] node.k = "properties" ->
         IF ~isRecord(v) THEN One(<<>>, formatType(v) \o " is not a record")
         ELSE Then(IF node.props.has THEN PropsErrors(node, v.e, 1, valids) ELSE Done(<<>>),
              Then(IF node.oprops.has THEN OpropsErrors(node, v.e, 1, valids) ELSE Done(<<>>),
                   IF ~node.additional THEN AdditionalErrors(node, v.e) ELSE Done(<<>>)))
    [] node.k = "discriminator" -> CompiledDiscriminatorErrors(node, v, valids)
    [] node.k = "definitions" -> pathErrors(node.val, v, valids, hops)
    [] node.k = "ref" -> pathErrors(node.val, v, valids, hops)
    [] node.k = "notanode" -> Raise("TypeError")
    [] node.k = "lazyref" ->
         LET val == validator(valids, node.ref)
         IN IF val = Func THEN Raise("TypeError")
            ELSE IF Threw(val) THEN Raise("Error")
            ELSE IF hops = 0 THEN Raise("RangeError")
            ELSE pathErrors(val, v, valids, hops - 1)

\* CompiledSchemaMixin.guard: false at the first entry, true when there is none
MixinGuard(node, v, valids) ==
  LET r == pathErrors(node, v, valids, Len(valids))
  IN IF r.errs # <<>> THEN "false"
     ELSE IF r.thrown # "" THEN "throw"
     ELSE "true"

\* a guard that hands the branch the whole record, tag included
GuardOfWholeRecord(node, v, valids) ==
  IF ~isRecord(v) THEN "false"
  ELSE LET key == Get(v.e, node.discriminator)
       IN IF key.t # "string" THEN "false"
          ELSE LET comp == Get(node.mapping, key.s)
               IN IF comp = Undefined THEN "false"
                  ELSE IF comp = Func THEN "throw"
                  ELSE MixinGuard(comp, v, valids)

\* CompiledDiscriminator.guard
DiscriminatorGuard(node, v, valids) ==
  IF ~isRecord(v) THEN "false"
  ELSE LET key == Get(v.e, node.discriminator)
           rest == Obj(Without(v.e, {node.discriminator}))
       IN IF key.t # "string" THEN "false"
          ELSE LET comp == Get(node.mapping, key.s)
               IN IF comp = Undefined THEN "false"
                  ELSE IF comp = Func THEN "throw"
                  ELSE MixinGuard(comp, rest, valids)

RECURSIVE ReverseJoin(_)
\* path.reverse().join("")
ReverseJoin(path) ==
  IF path = <<>> THEN "" ELSE ReverseJoin(Tail(path)) \o path[1]

\* CompiledSchemaMixin.guardAssert: true, or the exception raised; for the
\* Error of a failed validation, the lines between "Validation errors:" and
\* the blank line that follows them
guardAssert(node, v, valids) ==
  LET r == pathErrors(node, v, valids, Len(valids))
      unified(path) == IF ReverseJoin(path) = "" THEN "." ELSE ReverseJoin(path)
  IN IF r.thrown # "" THEN [k |-> "throw", name |-> r.thrown, lines |-> <<>>]
     ELSE IF Len(r.errs) # 0
       THEN [k |-> "throw", name |-> "Error",
             lines |-> [i \in 1..Len(r.errs) |-> unified(r.errs[i].path) \o ": " \o r.errs[i].msg]]
     ELSE [k |-> "true", name |-> "", lines |-> <<>>]

\* node.guard(v)
guard(node, v, valids) ==
  IF node.k = "discriminator" THEN DiscriminatorGuard(node, v, valids)
  ELSE MixinGuard(node, v, valids)

-----------------------------------------------------------------------------
(* The raw schema compiler *)

TypeNames == {"boolean", "float32", "float64", "string", "timestamp"} \cup IntTypes

\* a value the compiled graph holds where a node is expected (Object() for an
\* inherited name of typeValidators): it has none of the node methods
NotANode == [k |-> "notanode"]

\* typeValidators[type]()
typeValidators(type) ==
  IF type.t # "string" THEN Throw("typeValidators[type] is not a function")
  ELSE IF type.s = "boolean" THEN boolean
  ELSE IF type.s \in IntTypes THEN CompiledInt(type.s)
  ELSE IF type.s \in {"float32", "float64"} THEN CompiledFloat(type.s)
  ELSE IF type.s = "string" THEN string
  ELSE IF type.s = "timestamp" THEN timestamp
  ELSE IF type.s \in ProtoKeys THEN NotANode
  ELSE Throw("typeValidators[type] is not a function")

\* the strings of a raw enum array, as enumeration(...rawValues) receives them
RawStrings(a) == [i \in 1..Len(a) |-> a[i].s]

\* a cleanup that lets the keys left over pass
CleanupWithoutRest(node, e, used) ==
  LET nulla == Get(e, "nullable")
      meta == Get(e, "metadata")
      n1 == IF nulla = Bool(TRUE) THEN nullable(node) ELSE node
  IN IF Threw(node) THEN node
     ELSE IF nulla # Undefined /\ nulla.t # "boolean" THEN Throw("nullable was not a boolean")
     ELSE IF meta # Undefined THEN metadata(n1, meta)
     ELSE n1

\* the cleanup at the end of Compiler.compile: extra keys, nullable, metadata
Cleanup(node, e, used) ==
  LET rest == Without(e, used \cup {"nullable", "metadata"})
      nulla == Get(e, "nullable")
      meta == Get(e, "metadata")
      n1 == IF nulla = Bool(TRUE) THEN nullable(node) ELSE node
  IN IF Threw(node) THEN node
     ELSE IF Len(rest) # 0 THEN Throw("schema had extra keys: " \o JoinKeys(KeySeq(rest)))
     ELSE IF nulla # Undefined /\ nulla.t # "boolean" THEN Throw("nullable was not a boolean")
     ELSE IF meta # Undefined THEN metadata(n1, meta)
     ELSE n1

RECURSIVE CompilerCompile(_, _, _)
RECURSIVE CompileEntries(_, _, _)

\* Object.entries(obj).map(([key, schema]) => [key, this.compile(schema)]):
\* the first exception raised, or the compiled entries
CompileEntries(e, rawDefs, valids) ==
  IF e = <<>> THEN [k |-> "entries", e |-> <<>>]
  ELSE LET first == CompilerCompile(e[1][2], rawDefs, valids)
       IN IF Threw(first) THEN first
          ELSE LET others == CompileEntries(Tail(e), rawDefs, valids)
               IN IF Threw(others) THEN others
                  ELSE [k |-> "entries", e |-> <<<<e[1][1], first>>>> \o others.e]

\* Compiler.compile(schema), with this.defs = rawDefs and this.validDefs = valids
CompilerCompile(s, rawDefs, valids) ==
  IF s.t # "object" THEN Throw("jtd schema must be an object")
  ELSE IF In(s.e, "type") THEN
    Cleanup(typeValidators(Get(s.e, "type")), s.e, {"type"})
  ELSE IF In(s.e, "enum") THEN
    LET rawValues == Get(s.e, "enum")
    IN IF \/ rawValues.t # "array"
          \/ Len(rawValues.a) = 0
          \/ \E i \in 1..Len(rawValues.a) : rawValues.a[i].t # "string"
         THEN Throw("enum schema enum was not a non-empty array of strings")
       ELSE Cleanup(enumeration(RawStrings(rawValues.a)), s.e, {"enum"})
  ELSE IF In(s.e, "elements") THEN
    LET elems == CompilerCompile(Get(s.e, "elements"), rawDefs, valids)
    IN IF Threw(elems) THEN elems
       ELSE Cleanup(elements(elems), s.e, {"elements"})
  ELSE IF In(s.e, "properties") \/ In(s.e, "optionalProperties") THEN
    LET p == Get(s.e, "properties")
        o == Get(s.e, "optionalProperties")
        a == Get(s.e, "additionalProperties")
        props == IF p = Undefined THEN Obj(<<>>) ELSE p
        oprops == IF o = Undefined THEN Obj(<<>>) ELSE o
        additionalProperties == IF a = Undefined THEN Bool(FALSE) ELSE a
    IN IF ~isRecord(props) THEN Throw("properties must be an object")
       ELSE IF ~isRecord(oprops) THEN Throw("optionalProperties must be an object")
       ELSE IF additionalProperties.t # "boolean"
         THEN Throw("additionalProperties must be a boolean")
       ELSE LET reqs == CompileEntries(props.e, rawDefs, valids)
            IN IF Threw(reqs) THEN reqs
               ELSE LET opts == CompileEntries(oprops.e, rawDefs, valids)
                    IN IF Threw(opts) THEN opts
                       ELSE Cleanup(propertiesEntries(Entries(reqs.e), Entries(opts.e),
                                                      additionalProperties.b),
                                    s.e,
                                    {"properties", "optionalProperties", "additionalProperties"})
  ELSE IF In(s.e, "values") THEN
    LET val == CompilerCompile(Get(s.e, "values"), rawDefs, valids)
    IN IF Threw(val) THEN val
       ELSE Cleanup(values(val), s.e, {"values"})
  ELSE IF In(s.e, "ref") THEN
    LET ref == Get(s.e, "ref")
    IN IF ref.t # "string" \/ Get(rawDefs, ref.s) = Undefined
         THEN Throw("ref was not in definitions")
       ELSE Cleanup(LazyCompiledRef(valids, ref.s), s.e, {"ref"})
  ELSE IF In(s.e, "discriminator") /\ In(s.e, "mapping") THEN
    LET disc == Get(s.e, "discriminator")
        mapping == Get(s.e, "mapping")
    IN IF disc.t # "string" THEN Throw("discriminator was not a string")
       ELSE IF ~isRecord(mapping) THEN Throw("discriminator mapping was not an object")
       ELSE LET ents == CompileEntries(mapping.e, rawDefs, valids)
            IN IF Threw(ents) THEN ents
               ELSE Cleanup(discriminatorEntries(disc.s, ents.e), s.e,
                            {"discriminator", "mapping"})
  ELSE Cleanup(empty, s.e, {})

RECURSIVE CompilerConstructor(_, _)
\* the loop of the Compiler constructor over the first n entries of the definitions:
\* the first exception raised, or validDefs
CompilerConstructor(rawDefs, n) ==
  IF n = 0 THEN [k |-> "entries", e |-> <<>>]
  ELSE LET before == CompilerConstructor(rawDefs, n - 1)
       IN IF Threw(before) THEN before
          ELSE LET comp == CompilerCompile(rawDefs[n][2], rawDefs, before.e)
               IN IF Threw(comp) THEN comp
                  ELSE [k |-> "entries", e |-> Append(before.e, <<rawDefs[n][1], comp>>)]

\* compile(schema): the whole of lines 2205-2215 and the Compiler constructor
compile(doc) ==
  IF doc.t # "object" THEN Throw("schema must be an object")
  ELSE LET d == Get(doc.e, "definitions")
           definitions == IF d = Undefined THEN Obj(<<>>) ELSE d
           rest == Obj(Without(doc.e, {"definitions"}))
       IN IF ~isRecord(definitions) THEN Throw("definitions must be an object")
          ELSE LET vd == CompilerConstructor(definitions.e, Len(definitions.e))
               IN IF Threw(vd) THEN vd
                  ELSE LET v == CompilerCompile(rest, definitions.e, vd.e)
                       IN IF Threw(v) THEN v
                          ELSE [k |-> "compiled", valid |-> v, validDefs |-> vd.e]

-----------------------------------------------------------------------------
(* schema(): the raw schema a node exports *)

TypeDocOf(x) == Obj(<<<<"type", Str(x)>>>>)

RECURSIVE Schema(_)
RECURSIVE SchemaEntries(_)

\* entries.map(([key, comp]) => [key, comp.schema()]): the first exception, or the entries
SchemaEntries(e) ==
  IF e = <<>> THEN [k |-> "entries", e |-> <<>>]
  ELSE LET first == Schema(e[1][2])
       IN IF first.t = "throw" THEN first
          ELSE LET others == SchemaEntries(Tail(e))
               IN IF others.k = "throw" THEN others
                  ELSE [k |-> "entries", e |-> <<<<e[1][1], first>>>> \o others.e]

\* an exception raised inside schema(), as a value beside the documents
SchemaThrow == [t |-> "throw", k |-> "throw", msg |-> "schema is not a function"]

\* CompiledProperties.schema
PropertiesSchema(node) ==
  LET p == SchemaEntries(node.props.e)
      o == SchemaEntries(node.oprops.e)
      s1 == IF node.props.has THEN <<<<"properties", Obj(FromEntries(p.e))>>>> ELSE <<>>
      s2 == IF node.oprops.has
              THEN Append(s1, <<"optionalProperties", Obj(FromEntries(o.e))>>) ELSE s1
      s3 == IF node.additional THEN Append(s2, <<"additionalProperties", Bool(TRUE)>>) ELSE s2
  IN IF p.k = "throw" \/ o.k = "throw" THEN SchemaThrow ELSE Obj(s3)

\* CompiledDefinitions.schema
DefinitionsSchema(node) ==
  LET ds == SchemaEntries(node.defs)
      inner == Schema(node.val)
  IN IF ds.k = "throw" \/ inner.t = "throw" THEN SchemaThrow
     ELSE Obj(Put(inner.e, "definitions", Obj(FromEntries(ds.e))))

\* node.schema()
Schema(node) ==
  CASE node.k = "nullable" ->
         LET inner == Schema(node.wrapped)
         IN IF inner.t = "throw" THEN inner ELSE Obj(Put(inner.e, "nullable", Bool(TRUE)))
    [] node.k = "metadata" ->
         LET inner == Schema(node.wrapped)
         IN IF inner.t = "throw" THEN inner ELSE Obj(Put(inner.e, "metadata", node.metadata))
    [] node.k = "empty" -> Obj(<<>>)
    [] node.k = "boolean" -> TypeDocOf("boolean")
    [] node.k \in {"int", "float"} -> TypeDocOf(node.key)
    [] node.k = "string" -> TypeDocOf("string")
    [] node.k = "timestamp" -> TypeDocOf("timestamp")
    [] node.k = "enum" -> Obj(<<<<"enum", Arr([i \in 1..Len(node.vals) |-> Str(node.vals[i])])>>>>)
    [] node.k = "elements" ->
         LET inner == Schema(node.element)
         IN IF inner.t = "throw" THEN inner ELSE Obj(<<<<"elements", inner>>>>)
    [] node.k = "values" ->
         LET inner == Schema(node.values)
         IN IF inner.t = "throw" THEN inner ELSE Obj(<<<<"values", inner>>>>)
    [] node.k = "properties" -> PropertiesSchema(node)
    [] node.k = "discriminator" ->
         LET m == SchemaEntries(node.entries)
         IN IF m.k = "throw" THEN SchemaThrow
            ELSE Obj(<<<<"discriminator", Str(node.discriminator)>>,
                       <<"mapping", Obj(FromEntries(m.e))>>>>)
    [] node.k = "definitions" -> DefinitionsSchema(node)
    [] node.k \in {"ref", "lazyref"} -> Obj(<<<<"ref", Str(node.ref)>>>>)
    [] node.k = "notanode" -> SchemaThrow

-----------------------------------------------------------------------------
(* The inputs: raw schema documents, natively built nodes and values *)

\* the longest array among the values validated
MaxElems == 2

\* the most properties of an object among the values validated
MaxProps == 2

Doc1(k1, v1) == Obj(<<<<k1, v1>>>>)

TypeDoc(x) == Doc1("type", Str(x))

RefDoc(name) == Doc1("ref", Str(name))

With(doc, key, val) == Obj(Put(doc.e, key, val))

LeafDocs ==
  { Obj(<<>>), TypeDoc("boolean"), TypeDoc("uint8"), TypeDoc("string"),
    Doc1("enum", Arr(<<Str("x"), Str("y")>>)) }

\* the forms with their modifiers
ModDocs ==
  LeafDocs
    \cup {With(d, "nullable", Bool(TRUE)) : d \in LeafDocs}
    \cup {With(TypeDoc("boolean"), "metadata", Str("m")),
          With(With(TypeDoc("uint8"), "nullable", Bool(TRUE)), "metadata", Null),
          With(TypeDoc("boolean"), "nullable", Bool(FALSE)),
          With(TypeDoc("boolean"), "nullable", Str("yes")),
          With(TypeDoc("boolean"), "enum", Arr(<<Str("x")>>)),
          TypeDoc("constructor"), TypeDoc("int64"),
          Doc1("enum", Arr(<<Str("x"), Str("x")>>)),
          Doc1("enum", Arr(<<>>)),
          Doc1("enum", Str("x")), Doc1("enum", Obj(<<>>)),
          Doc1("enum", Arr(<<Str("x"), IntNum(0)>>)), Doc1("enum", Arr(<<Null>>)),
          Doc1("elements", Doc1("enum", Arr(<<Str("y"), Str("x"), Str("y")>>))),
          Doc1("enum", Arr(<<Str("z")>>))}

PropMaps ==
  { Undefined, Obj(<<>>),
    Obj(<<<<"a", TypeDoc("boolean")>>>>),
    Obj(<<<<"a", TypeDoc("boolean")>>, <<"b", TypeDoc("uint8")>>>>),
    Obj(<<<<"constructor", Obj(<<>>)>>>>),
    Obj(<<<<"a", With(TypeDoc("uint8"), "nullable", Bool(TRUE))>>>>) }

OpropMaps ==
  { Undefined,
    Obj(<<<<"b", TypeDoc("string")>>>>),
    Obj(<<<<"a", TypeDoc("boolean")>>>>) }

PropsDoc(p, o, a) ==
  LET d1 == IF p = Undefined THEN Obj(<<>>) ELSE Doc1("properties", p)
      d2 == IF o = Undefined THEN d1 ELSE With(d1, "optionalProperties", o)
  IN IF a = Undefined THEN d2 ELSE With(d2, "additionalProperties", a)

PropsDocs ==
  { PropsDoc(p, o, a) : p \in PropMaps, o \in OpropMaps, a \in {Undefined, Bool(TRUE), Bool(FALSE)} }
    \ { PropsDoc(Undefined, Undefined, a) : a \in {Undefined, Bool(TRUE), Bool(FALSE)} }

DiscDoc(tag, m) == Obj(<<<<"discriminator", Str(tag)>>, <<"mapping", m>>>>)

BranchX == PropsDoc(Obj(<<<<"a", TypeDoc("boolean")>>>>), Undefined, Undefined)

BranchY == PropsDoc(Undefined, Obj(<<<<"b", TypeDoc("string")>>>>), Bool(TRUE))

DiscDocs ==
  { DiscDoc("t", Obj(<<<<"x", BranchX>>, <<"y", BranchY>>>>)),
    DiscDoc("t", Obj(<<<<"x", BranchX>>>>)),
    With(DiscDoc("t", Obj(<<<<"x", BranchX>>, <<"y", BranchY>>>>)), "nullable", Bool(TRUE)),
    With(DiscDoc("b", Obj(<<<<"x", BranchX>>>>)), "metadata", Str("m")),
    DiscDoc("a", Obj(<<<<"x", BranchX>>>>)),
    DiscDoc("t", Obj(<<<<"x", With(BranchX, "nullable", Bool(TRUE))>>>>)),
    DiscDoc("t", Obj(<<<<"x", TypeDoc("boolean")>>>>)),
    DiscDoc("t", Obj(<<<<"x", With(BranchX, "metadata", Str("m"))>>, <<"y", BranchY>>>>)) }

ContainerDocs ==
  { Doc1("elements", d) : d \in {Obj(<<>>), TypeDoc("uint8"), BranchX,
                                 With(TypeDoc("boolean"), "nullable", Bool(TRUE))} }
    \cup { Doc1("values", d) : d \in {TypeDoc("boolean"), Doc1("elements", TypeDoc("uint8"))} }
    \cup { Doc1("elements", DiscDoc("t", Obj(<<<<"x", BranchX>>, <<"y", BranchY>>>>))),
           PropsDoc(Obj(<<<<"a", DiscDoc("t", Obj(<<<<"x", BranchX>>>>))>>>>), Undefined, Undefined),
           Doc1("elements", With(TypeDoc("boolean"), "definitions", Obj(<<>>))) }

\* root forms that mention the definitions a and b
RefDocs ==
  { RefDoc("a"), RefDoc("b"), With(RefDoc("a"), "nullable", Bool(TRUE)),
    Doc1("elements", RefDoc("a")), RefDoc("constructor"), TypeDoc("boolean"),
    PropsDoc(Obj(<<<<"a", RefDoc("a")>>>>), Obj(<<<<"b", RefDoc("b")>>>>), Undefined),
    DiscDoc("t", Obj(<<<<"x", RefDoc("a")>>>>)) }

DefTables ==
  { Obj(<<<<"a", TypeDoc("boolean")>>>>),
    Obj(<<<<"a", Doc1("elements", RefDoc("b"))>>, <<"b", Doc1("values", RefDoc("a"))>>>>),
    Obj(<<<<"a", With(Doc1("elements", RefDoc("a")), "nullable", Bool(TRUE))>>>>),
    Obj(<<<<"a", RefDoc("a")>>>>),
    Obj(<<<<"a", RefDoc("b")>>, <<"b", With(RefDoc("a"), "nullable", Bool(TRUE))>>>>),
    Obj(<<<<"a", TypeDoc("uint8")>>, <<"b", RefDoc("zz")>>>>),
    Obj(<<<<"a", BranchX>>, <<"b", Doc1("elements", RefDoc("a"))>>>>) }

\* every integer kind, bare and nullable
IntDocs ==
  {TypeDoc(key) : key \in IntTypes} \cup {With(TypeDoc(key), "nullable", Bool(TRUE)) : key \in IntTypes}

\* schema objects that mix forms or carry a key no form consumes
MixedDocs ==
  { With(TypeDoc("boolean"), "enum", Arr(<<Str("x")>>)),
    With(TypeDoc("boolean"), "elements", Obj(<<>>)),
    Doc1("discriminator", Str("t")),
    Doc1("mapping", Obj(<<<<"x", BranchX>>>>)),
    Doc1("additionalProperties", Bool(TRUE)),
    Doc1("foo", Null),
    With(Doc1("values", Obj(<<>>)), "ref", Str("a")),
    With(BranchX, "values", Obj(<<>>)) }

\* the same below the root
NestedMixedDocs ==
  { Doc1("elements", d) : d \in MixedDocs }
    \cup { Doc1("values", Doc1("elements", Doc1("foo", Null))),
           PropsDoc(Obj(<<<<"a", Doc1("additionalProperties", Bool(TRUE))>>>>), Undefined, Undefined),
           PropsDoc(Undefined, Obj(<<<<"b", With(TypeDoc("string"), "enum", Arr(<<Str("x")>>))>>>>), Undefined),
           DiscDoc("t", Obj(<<<<"x", With(BranchX, "foo", Null)>>>>)),
           With(TypeDoc("boolean"), "definitions", Obj(<<<<"a", Doc1("discriminator", Str("t"))>>>>)),
           Doc1("elements", IntNum(0)),
           Doc1("values", With(TypeDoc("boolean"), "definitions", Obj(<<>>))),
           PropsDoc(Obj(<<<<"a", With(Obj(<<>>), "definitions", Obj(<<>>))>>>>), Undefined, Undefined),
           DiscDoc("t", Obj(<<<<"x", With(BranchX, "definitions", Obj(<<>>))>>>>)),
           With(RefDoc("a"), "definitions",
                Obj(<<<<"a", With(TypeDoc("boolean"), "definitions", Obj(<<>>))>>>>)) }

RootDocs ==
  ModDocs \cup PropsDocs \cup DiscDocs \cup ContainerDocs \cup IntDocs
    \cup MixedDocs \cup NestedMixedDocs
    \cup {RefDoc("a"), RefDoc("constructor"), Null, With(TypeDoc("boolean"), "definitions", Null)}
    \cup { With(f, "definitions", t) : f \in RefDocs, t \in DefTables }

\* what the definitions builder makes of .def("a", () => boolean()).def("b", ({a}) => elements(a))
BuiltA == boolean

BuiltB == elements(CompiledRef("a", BuiltA))

\* nodes built through the native functions
NativeNodes ==
  { nullable(nullable(boolean)),
    metadata(nullable(CompiledInt("int8")), Str("m")),
    properties(NoEntries, Entries(<<<<"b", string>>>>), FALSE),
    properties(NoEntries, Entries(<<<<"b", string>>>>), TRUE),
    properties(Entries(<<<<"a", boolean>>>>), NoEntries, FALSE),
    properties(Entries(<<<<"a", nullable(empty)>>>>), Entries(<<<<"b", CompiledFloat("float64")>>>>), FALSE),
    discriminatorEntries("t", <<<<"x", properties(Entries(<<<<"a", boolean>>>>), NoEntries, FALSE)>>,
                               <<"y", properties(NoEntries, Entries(<<<<"b", string>>>>), FALSE)>>>>),
    nullable(discriminatorEntries("t", <<<<"x", properties(Entries(<<<<"a", boolean>>>>), NoEntries, TRUE)>>>>)),
    CompiledDefinitions(<<<<"a", BuiltA>>, <<"b", BuiltB>>>>, CompiledRef("b", BuiltB)),
    CompiledDefinitions(<<<<"a", BuiltA>>>>, values(CompiledRef("a", BuiltA))),
    elements(CompiledDefinitions(<<>>, boolean)),
    elements(timestamp),
    enumeration(<<"x", "y">>),
    enumeration(<<"x", "x">>),
    nullable(CompiledDefinitions(<<<<"a", BuiltA>>>>, CompiledRef("a", BuiltA))),
    metadata(nullable(CompiledDefinitions(<<>>, properties(Entries(<<<<"a", boolean>>>>), NoEntries, FALSE))),
             Str("m")),
    CompiledDefinitions(<<>>, properties(Entries(<<<<"a", boolean>>>>), NoEntries, FALSE)),
    properties(Entries(<<<<"t", string>>>>), NoEntries, TRUE),
    properties(Entries(<<<<"a", boolean>>>>), Entries(<<<<"t", boolean>>>>), FALSE),
    nullable(properties(Entries(<<<<"a", boolean>>>>), NoEntries, FALSE)),
    properties(Entries(<<<<"a", boolean>>, <<"b", string>>>>), Entries(<<<<"b", string>>>>), FALSE),
    properties(NoEntries, NoEntries, FALSE),
    elements(properties(NoEntries, NoEntries, TRUE)),
    properties(Entries(<<<<"foo", elements(values(boolean))>>>>), NoEntries, FALSE),
    elements(elements(CompiledInt("uint8"))) }

Leaves == {Null, Bool(TRUE), IntNum(0), IntNum(300), Half(0), Str("x"), Str("z")}

InnerLeaves == {Null, Bool(TRUE), IntNum(0), Str("x")}

ValueKeys == <<"a", "b", "t", "constructor">>

\* the subsequences of s of length at most n
RECURSIVE SubSeqs(_, _)
SubSeqs(s, n) ==
  IF s = <<>> \/ n = 0 THEN {<<>>}
  ELSE SubSeqs(Tail(s), n) \cup {<<s[1]>> \o r : r \in SubSeqs(Tail(s), n - 1)}

\* the objects with the keys ks, in this order, and values from S
ObjectsOver(ks, S) == { Obj([i \in 1..Len(ks) |-> <<ks[i], f[i]>>]) : f \in [1..Len(ks) -> S] }

ArraysOf(S, n) == UNION { {Arr(a) : a \in [1..m -> S]} : m \in 0..n }

FlatObjects == UNION { ObjectsOver(ks, InnerLeaves) : ks \in SubSeqs(ValueKeys, MaxProps) }

NestedValues ==
  { Arr(<<Doc1("k", Arr(<<>>))>>), Arr(<<Doc1("k", IntNum(0))>>), Arr(<<Arr(<<>>)>>),
    Doc1("a", Arr(<<IntNum(0), IntNum(300)>>)), Doc1("a", Doc1("t", Str("x"))),
    Doc1("a", Obj(<<<<"t", Str("x")>>, <<"a", Bool(TRUE)>>>>)),
    Arr(<<Obj(<<<<"t", Str("x")>>, <<"a", Bool(TRUE)>>>>), Obj(<<<<"t", Str("y")>>, <<"a", Bool(TRUE)>>>>)>>),
    Obj(<<<<"t", Str("constructor")>>>>), Obj(<<<<"t", Str("y")>>, <<"zz", Null>>>>),
    Obj(<<<<"b", Str("x")>>, <<"a", Bool(TRUE)>>>>),
    Arr(<<Doc1("a", Bool(TRUE)), Doc1("a", Null)>>),
    Doc1("weird key", Arr(<<IntNum(0), IntNum(300)>>)),
    Obj(<<<<"_x1", IntNum(0)>>, <<"1a", IntNum(0)>>, <<"", IntNum(0)>>>>),
    Doc1("foo", Arr(<<Obj(<<>>), Obj(<<<<"weird key", IntNum(0)>>, <<"a", Bool(TRUE)>>>>)>>)),
    Arr(<<Arr(<<IntNum(0)>>), Arr(<<IntNum(300), Str("x")>>)>>) }

\* the numbers at and next to the bounds of the integer kinds
BoundaryNumbers ==
  UNION { {Pred(intBounds(key)[1]), intBounds(key)[1], Pred(intBounds(key)[2]), intBounds(key)[2]}
          : key \in IntTypes }
    \cup {IntNum(1), IntNum(-1), Half(1), Half(-1), Half(127), Half(-128), Half(255)}

Values == {Undefined} \cup Leaves \cup BoundaryNumbers \cup ArraysOf(InnerLeaves, MaxElems) \cup FlatObjects \cup NestedValues

-----------------------------------------------------------------------------
(* The program: a schema is compiled (the Compiler constructor compiles    *)
(* the definitions one entry at a time, then the root) or built natively,  *)
(* and the node returned is then used.                                     *)

Idle == [k |-> "none"]

Init ==
  /\ pc = "start"
  /\ schema = Undefined
  /\ defs = <<>>
  /\ validDefs = <<>>
  /\ valid = Idle
  /\ inp = Undefined
  /\ ok = "none"
  /\ errors = Done(<<>>)
  /\ out = Idle

\* compile(doc), lines 2209-2213 up to the construction of the Compiler
CompileStart(doc) ==
  /\ pc = "start"
  /\ LET d == IF doc.t = "object" THEN Get(doc.e, "definitions") ELSE Undefined
         definitions == IF d = Undefined THEN Obj(<<>>) ELSE d
     IN IF doc.t # "object" THEN
          /\ valid' = Throw("schema must be an object")
          /\ pc' = "failed"
          /\ UNCHANGED <<schema, defs>>
        ELSE IF ~isRecord(definitions) THEN
          /\ valid' = Throw("definitions must be an object")
          /\ pc' = "failed"
          /\ UNCHANGED <<schema, defs>>
        ELSE
          /\ schema' = Obj(Without(doc.e, {"definitions"}))
          /\ defs' = definitions.e
          /\ pc' = "defs"
          /\ UNCHANGED valid
  /\ UNCHANGED <<validDefs, inp, ok, errors, out>>

\* one turn of the loop of the Compiler constructor: this.validDefs[key] = this.compile(schema)
CompileDef ==
  /\ pc = "defs"
  /\ Len(validDefs) < Len(defs)
  /\ LET entry == defs[Len(validDefs) + 1]
         comp == CompilerCompile(entry[2], defs, validDefs)
     IN IF Threw(comp) THEN
          /\ valid' = comp
          /\ pc' = "failed"
          /\ UNCHANGED validDefs
        ELSE
          /\ validDefs' = Append(validDefs, <<entry[1], comp>>)
          /\ UNCHANGED <<valid, pc>>
  /\ UNCHANGED <<schema, defs, inp, ok, errors, out>>

\* new Compiler(definitions).compile(rest), once the constructor's loop has ended
CompileRoot ==
  /\ pc = "defs"
  /\ Len(validDefs) = Len(defs)
  /\ valid' = CompilerCompile(schema, defs, validDefs)
  /\ pc' = IF Threw(valid') THEN "failed" ELSE "done"
  /\ UNCHANGED <<schema, defs, validDefs, inp, ok, errors, out>>

\* a node built with the native functions
Native(node) ==
  /\ pc = "start"
  /\ valid' = node
  /\ pc' = IF Threw(node) THEN "failed" ELSE "done"
  /\ UNCHANGED <<schema, defs, validDefs, inp, ok, errors, out>>

\* valid.guard(v) and the enumeration valid.pathErrors(v)
Validate(v) ==
  /\ pc = "done"
  /\ inp' = v
  /\ ok' = guard(valid, v, validDefs)
  /\ errors' = pathErrors(valid, v, validDefs, Len(validDefs))
  /\ pc' = "checked"
  /\ UNCHANGED <<schema, defs, validDefs, valid, out>>

\* the forms that embed a child node
EmbeddingForms == {"elements", "values", "properties", "optionalProperties", "discriminator"}

\* the native function of the form, called with the node `child` as its only child
Embedding(form, child) ==
  CASE form = "elements" -> elements(child)
    [] form = "values" -> values(child)
    [] form = "properties" -> properties(Entries(<<<<"a", child>>>>), NoEntries, FALSE)
    [] form = "optionalProperties" -> properties(NoEntries, Entries(<<<<"a", child>>>>), FALSE)
    [] form = "discriminator" -> discriminatorEntries("t", <<<<"x", child>>>>)

\* the node returned is passed as a child to elements, values, properties or discriminator
Embed(form) ==
  /\ pc = "done"
  /\ valid' = Embedding(form, valid)
  /\ out' = [k |-> "embed", form |-> form, child |-> valid]
  /\ pc' = IF Threw(valid') THEN "rejected" ELSE "embedded"
  /\ UNCHANGED <<schema, defs, validDefs, inp, ok, errors>>

Next ==
  \/ \E doc \in RootDocs : CompileStart(doc)
  \/ CompileDef
  \/ CompileRoot
  \/ \E node \in NativeNodes : Native(node)
  \/ \E v \in Values : Validate(v)
  \/ \E form \in EmbeddingForms : Embed(form)

Spec == Init /\ [][Next]_vars

-----------------------------------------------------------------------------
(* Properties of guard and the error enumeration *)

\* the enumeration recorded by Validate ran to its end and yielded nothing
NoErrors == errors.thrown = "" /\ errors.errs = <<>>

\* the node under its Nullable / Metadata / Definitions / CompiledRef wrappers
RECURSIVE Unwrapped(_)
Unwrapped(node) ==
  IF node.k \in {"nullable", "metadata"} THEN Unwrapped(node.wrapped)
  ELSE IF node.k \in {"definitions", "ref"} THEN Unwrapped(node.val)
  ELSE node

\* C1: whenever a node has been asked about a value, guard returned true
\* exactly when the error enumeration of the same value yielded no entry;
\* Discriminator nodes, with their own guard, and the wrappers around them
\* included.
C1_GuardIffNoErrors ==
  pc = "checked" => ((ok = "true") <=> NoErrors)

\* a Discriminator under a wrapper accepted a record through its own guard
C1_Witness ==
  /\ pc = "checked"
  /\ valid.k \in {"nullable", "metadata"}
  /\ Unwrapped(valid).k = "discriminator"
  /\ inp.t = "object"
  /\ Len(inp.e) = 2
  /\ ok = "true"
  /\ NoErrors

\* the value of the own property key of the object v
Own(v, key) == v.e[IndexOf(v.e, key, 1)][2]

\* the validation was of the node compile() or a native function returned
Checked(kind) == pc = "checked" /\ valid.k = kind

\* the acceptance rule of a Properties node, from presence of own keys
PropertiesAccepts(node, v, valids) ==
  /\ v.t = "object"
  /\ \A i \in 1..Len(node.props.e) :
       /\ HasOwn(v.e, node.props.e[i][1])
       /\ guard(node.props.e[i][2], Own(v, node.props.e[i][1]), valids) = "true"
  /\ \A i \in 1..Len(node.oprops.e) :
       HasOwn(v.e, node.oprops.e[i][1])
         => guard(node.oprops.e[i][2], Own(v, node.oprops.e[i][1]), valids) = "true"
  /\ node.additional \/ KeySet(v.e) \subseteq (KeySet(node.props.e) \cup KeySet(node.oprops.e))

\* the required keys of node that v does not have
MissingKeys(node, v) == {key \in KeySet(node.props.e) : ~HasOwn(v.e, key)}

\* the keys of v that node does not declare
ExtraKeys(node, v) == KeySet(v.e) \ (KeySet(node.props.e) \cup KeySet(node.oprops.e))

\* the entries of the enumeration whose message is msg
CountOf(errs, msg) == Cardinality({i \in 1..Len(errs) : errs[i].msg = msg})

\* the rule for the validation recorded: acceptance, and one error for each
\* missing required key and each disallowed extra key when the enumeration
\* ran to its end
PropertiesRule ==
  /\ (ok = "true") <=> PropertiesAccepts(valid, inp, validDefs)
  /\ (inp.t = "object" /\ errors.thrown = "") =>
       /\ \A key \in MissingKeys(valid, inp) :
            CountOf(errors.errs, "required key '" \o key \o "' is missing") = 1
       /\ ~valid.additional =>
            \A key \in ExtraKeys(valid, inp) :
              CountOf(errors.errs, "'" \o key
                \o "' is not a valid property and additional properties are not allowed") = 1

\* C4: a Properties node accepts a value exactly when the value is a plain
\* record, has every required key with a value its schema accepts, has only
\* acceptable values at the optional keys it has, and has no undeclared key
\* unless additional properties are allowed; every missing required key and
\* every disallowed extra key has exactly one error that names it.
C4_PropertiesAcceptance == Checked("properties") => PropertiesRule

\* the rule does hold where no declared key is a name that plain objects inherit
PropertiesRuleForOwnNames ==
  (Checked("properties") /\ (KeySet(valid.props.e) \cup KeySet(valid.oprops.e)) \cap ProtoKeys = {})
    => PropertiesRule

\* the acceptance rule of a Discriminator node, from the own tag of the record
DiscriminatorAccepts(node, v, valids) ==
  /\ v.t = "object"
  /\ HasOwn(v.e, node.discriminator)
  /\ Own(v, node.discriminator).t = "string"
  /\ HasOwn(node.mapping, Own(v, node.discriminator).s)
  /\ guard(node.mapping[IndexOf(node.mapping, Own(v, node.discriminator).s, 1)][2],
           Obj(Without(v.e, {node.discriminator})), valids) = "true"

\* the validation was of a Discriminator, bare or under Nullable / Metadata
CheckedDiscriminator ==
  /\ pc = "checked"
  /\ Unwrapped(valid).k = "discriminator"
  /\ ~(valid.k = "nullable" /\ inp = Null)

C6_NullableLaw ==
  Checked("nullable") =>
    LET inner == pathErrors(valid.wrapped, inp, validDefs, Len(validDefs))
    IN /\ (ok = "true") <=> (inp = Null \/ guard(valid.wrapped, inp, validDefs) = "true")
       /\ inp # Null =>
            /\ Len(errors.errs) = Len(inner.errs)
            /\ \A i \in 1..Len(inner.errs) : errors.errs[i].path = inner.errs[i].path

\* a Nullable node rejected a value with the two nested errors of the wrapped node
C6_Witness ==
  /\ Checked("nullable")
  /\ inp # Null
  /\ ok = "false"
  /\ Len(errors.errs) = 2
  /\ errors.errs[1].path # errors.errs[2].path
  /\ errors.errs[1].path # <<>>

\* |v| < 2^bits, on the limbs of v
MagnitudeBelow(v, bits) ==
  IF bits <= 16 THEN v.hi = 0 /\ v.lo < 2^bits ELSE v.hi < 2^(bits - 16)

\* |v| = 2^bits
MagnitudeIs(v, bits) ==
  IF bits < 16 THEN v.hi = 0 /\ v.lo = 2^bits ELSE v.hi = 2^(bits - 16) /\ v.lo = 0

Bits(key) == IF key \in {"int8", "uint8"} THEN 8 ELSE IF key \in {"int16", "uint16"} THEN 16 ELSE 32

Signed(key) == key \in {"int8", "int16", "int32"}

\* v is an integer of the kind key: in [-2^(w-1), 2^(w-1)) or in [0, 2^w)
InKind(key, v) ==
  /\ v.t = "number"
  /\ v.frac = 0
  /\ IF Signed(key)
       THEN IF v.neg THEN MagnitudeBelow(v, Bits(key) - 1) \/ MagnitudeIs(v, Bits(key) - 1)
            ELSE MagnitudeBelow(v, Bits(key) - 1)
     ELSE MagnitudeBelow(v, Bits(key)) /\ (~v.neg \/ (v.hi = 0 /\ v.lo = 0))

\* C7: the node of an integer kind accepts a value exactly when the value is
\* a number without fractional part within [lower, upper) of the kind; the
\* lower bound itself is accepted and the upper bound itself is rejected.
C7_IntegerBounds ==
  Checked("int") =>
    /\ (ok = "true") <=> InKind(valid.key, inp)
    /\ inp = intBounds(valid.key)[1] => ok = "true"
    /\ inp = intBounds(valid.key)[2] => ok = "false"

\* the int32 node accepted 2^31 - 1, the number below its upper bound
C7_Witness ==
  /\ Checked("int")
  /\ valid.key = "int32"
  /\ inp = Num(FALSE, 32767, 65535, 0)
  /\ ok = "true"

\* the names of the references a compiled node holds, resolved or not
RECURSIVE RefNames(_, _)
RECURSIVE RefNamesOf(_, _)
RefNamesOf(e, kinds) ==
  IF e = <<>> THEN {} ELSE RefNames(e[1][2], kinds) \cup RefNamesOf(Tail(e), kinds)

RefNames(node, kinds) ==
  CASE node.k \in {"nullable", "metadata"} -> RefNames(node.wrapped, kinds)
    [] node.k = "elements" -> RefNames(node.element, kinds)
    [] node.k = "values" -> RefNames(node.values, kinds)
    [] node.k = "properties" -> RefNamesOf(node.props.e, kinds) \cup RefNamesOf(node.oprops.e, kinds)
    [] node.k = "discriminator" -> RefNamesOf(node.entries, kinds)
    [] node.k = "definitions" -> RefNamesOf(node.defs, kinds) \cup RefNames(node.val, kinds)
    [] node.k = "ref" -> IF "ref" \in kinds THEN {node.ref} ELSE {}
    [] node.k = "lazyref" -> IF "lazyref" \in kinds THEN {node.ref} ELSE {}
    [] OTHER -> {}

\* the raw definitions tables whose entries refer to themselves, to a later
\* entry or to each other in a cycle
RecursiveTables ==
  { <<<<"a", Doc1("elements", RefDoc("b"))>>, <<"b", Doc1("values", RefDoc("a"))>>>>,
    <<<<"a", With(Doc1("elements", RefDoc("a")), "nullable", Bool(TRUE))>>>>,
    <<<<"a", RefDoc("a")>>>>,
    <<<<"a", RefDoc("b")>>, <<"b", With(RefDoc("a"), "nullable", Bool(TRUE))>>>> }

\* elems = array of vals, vals = map of elems
ElemsTable == <<<<"a", Doc1("elements", RefDoc("b"))>>, <<"b", Doc1("values", RefDoc("a"))>>>>

RECURSIVE IsElems(_)
RECURSIVE IsVals(_)
IsElems(v) == v.t = "array" /\ \A i \in 1..Len(v.a) : IsVals(v.a[i])

IsVals(v) == v.t = "object" /\ \A i \in 1..Len(v.e) : IsElems(v.e[i][2])

\* C9: compile does not fail on definitions that refer to themselves, to a
\* later entry or to each other; while the definitions are compiled and in
\* the node returned every reference is an unresolved name, never a node
\* taken from the table; when the result is used every definitions entry has
\* been compiled; and the schema elems = array of vals, vals = map of elems
\* accepts exactly the finite nestings of arrays of maps of arrays.
C9_LazyReferences ==
  /\ (defs \in RecursiveTables /\ pc \in {"defs", "failed"} /\ Len(validDefs) < Len(defs))
       => pc = "defs"
  /\ (defs \in RecursiveTables /\ schema = RefDoc("a")) => pc # "failed"
  /\ schema # Undefined =>
       /\ RefNamesOf(validDefs, {"ref"}) = {}
       /\ valid.k \notin {"none", "throw"} => RefNames(valid, {"ref"}) = {}
  /\ (schema # Undefined /\ pc \in {"done", "checked"}) => KeySeq(validDefs) = KeySeq(defs)
  /\ (pc = "checked" /\ defs = ElemsTable /\ schema = RefDoc("a"))
       => ((ok = "true") <=> IsElems(inp))

\* the cyclic schema accepted [{"k": []}]
C9_Witness ==
  /\ pc = "checked"
  /\ defs = ElemsTable
  /\ schema = RefDoc("a")
  /\ inp = Arr(<<Doc1("k", Arr(<<>>))>>)
  /\ ok = "true"

\* C10: once compile has returned a node, every reference in the node and in
\* the compiled definitions names an entry of the definitions table, so no
\* use of the result can meet a name that is absent from it.
C10_NoDanglingReference ==
  (schema # Undefined /\ pc \in {"done", "checked"}) =>
    (RefNames(valid, {"lazyref"}) \cup RefNamesOf(validDefs, {"lazyref"})) \subseteq KeySet(defs)

\* the same for references whose name is not one that plain objects inherit
NoDanglingOwnName ==
  (schema # Undefined /\ pc \in {"done", "checked"}) =>
    ((RefNames(valid, {"lazyref"}) \cup RefNamesOf(validDefs, {"lazyref"})) \ ProtoKeys)
      \subseteq KeySet(defs)

-----------------------------------------------------------------------------
(* Timestamps: a date-time text is written from its fields and handed to    *)
(* the timestamp node.                                                      *)

\* n in two decimal digits
TwoDigits(n) == IF n < 10 THEN "0" \o ToString(n) ELSE ToString(n)

Years == {1900, 2000, 2015, 2016}

Months == {0, 1, 2, 4, 9, 12, 13}

Days == {0, 1, 28, 29, 30, 31, 32}

\* hour, minute, second
Times == {<<0, 0, 0>>, <<23, 59, 60>>, <<24, 0, 0>>, <<12, 60, 0>>, <<12, 0, 61>>}

\* what stands around the fields: before the year, between date and time,
\* the fraction, the offset, after the offset
Shapes ==
  { <<"", "T", "", "Z", "">>, <<"", "t", ".52", "z", "">>, <<"", "T", "", "-08:00", "">>,
    <<"", "T", ".000031", "+00:20", "">>,
    <<"x", "T", "", "Z", "">>, <<"", "T", "", "Z", "x">>, <<"x", "T", ".52", "Z", "x">>,
    <<"", "T", "", "+01:00", "0">>, <<"1", "T", "", "Z", "">>,
    <<"", " ", "", "Z", "">>, <<"", "T", ".", "Z", "">>, <<"", "T", "", "", "">>,
    <<"", "T", "", "+1:00", "">> }

\* the text of the fields in the shape given
TimestampText(year, month, day, time, shape) ==
  shape[1] \o ToString(year) \o "-" \o TwoDigits(month) \o "-" \o TwoDigits(day) \o shape[2]
    \o TwoDigits(time[1]) \o ":" \o TwoDigits(time[2]) \o ":" \o TwoDigits(time[3])
    \o shape[3] \o shape[4] \o shape[5]

InitTimestamp ==
  /\ pc = "text"
  /\ schema = Undefined
  /\ defs = <<>>
  /\ validDefs = <<>>
  /\ valid = timestamp
  /\ inp = Undefined
  /\ ok = "none"
  /\ errors = Done(<<>>)
  /\ out = Idle

\* timestamp().guard(text) and the enumeration, for the text of the fields
CheckTimestamp(year, month, day, time, shape) ==
  /\ pc = "text"
  /\ inp' = Str(TimestampText(year, month, day, time, shape))
  /\ ok' = guard(valid, inp', validDefs)
  /\ errors' = pathErrors(valid, inp', validDefs, 0)
  /\ out' = [year |-> year, month |-> month, day |-> day, hour |-> time[1],
             minute |-> time[2], second |-> time[3], shape |-> shape]
  /\ pc' = "checked"
  /\ UNCHANGED <<schema, defs, validDefs, valid>>

NextTimestamp ==
  \E year \in Years, month \in Months, day \in Days, time \in Times, shape \in Shapes :
    CheckTimestamp(year, month, day, time, shape)

SpecTimestamp == InitTimestamp /\ [][NextTimestamp]_vars

\* the shapes of the date-time grammar: nothing before or after, T or t, an
\* optional fraction of at least one digit, and Z, z or a numeric offset
GrammarShapes ==
  { shape \in Shapes :
      /\ shape[1] = "" /\ shape[5] = ""
      /\ shape[2] \in {"T", "t"}
      /\ shape[3] \in {"", ".52", ".000031"}
      /\ shape[4] \in {"Z", "z", "-08:00", "+00:20", "+01:00"} }

LeapYear(year) == year % 4 = 0 /\ (year % 100 # 0 \/ year % 400 = 0)

DaysInMonth(year, month) ==
  IF month = 2 THEN (IF LeapYear(year) THEN 29 ELSE 28)
  ELSE IF month \in {4, 6, 9, 11} THEN 30
  ELSE 31

\* C8: for a text in the date-time grammar the timestamp check is true
\* exactly when the month is within 1..12, the day is at most the days of
\* the month (29 for February of a leap year by the Gregorian rule), the
\* hour is below 24, the minute below 60 and the second at most 60; a text
\* with anything before or after the date-time is rejected.
C8_TimestampCheck ==
  (pc = "checked" /\ valid.k = "timestamp" /\ out # Idle) =>
    /\ out.shape \in GrammarShapes =>
         ((ok = "true") <=>
            /\ out.month \in 1..12
            /\ out.day <= DaysInMonth(out.year, out.month)
            /\ out.hour < 24
            /\ out.minute < 60
            /\ out.second <= 60)
    /\ (out.shape[1] # "" \/ out.shape[5] # "") => ok = "false"
    /\ (ok = "true") <=> isTimestamp(inp.s)

\* 29 February of the leap year 2000 with a leap second was accepted
C8_Witness ==
  /\ pc = "checked"
  /\ out # Idle
  /\ inp = Str("2000-02-29t23:59:60.52z")
  /\ ok = "true"

-----------------------------------------------------------------------------
(* Export and recompilation: the node returned is asked for its schema, the *)
(* schema is compiled again, and both nodes are asked about a value.        *)

\* valid.schema() and compile() of what it returned
Export ==
  /\ pc = "done"
  /\ LET raw == Schema(valid)
     IN out' = [raw |-> raw,
                again |-> IF raw.t = "throw" THEN Throw(raw.msg) ELSE compile(raw),
                ok |-> "none"]
  /\ pc' = "exported"
  /\ UNCHANGED <<schema, defs, validDefs, valid, inp, ok, errors>>

\* guard(v) of the node and of the node compiled from its schema
Compare(v) ==
  /\ pc = "exported"
  /\ ~Threw(out.again)
  /\ inp' = v
  /\ ok' = guard(valid, v, validDefs)
  /\ errors' = pathErrors(valid, v, validDefs, Len(validDefs))
  /\ out' = [out EXCEPT !.ok = guard(out.again.valid, v, out.again.validDefs)]
  /\ pc' = "compared"
  /\ UNCHANGED <<schema, defs, validDefs, valid>>

NextExport ==
  \/ \E doc \in RootDocs : CompileStart(doc)
  \/ CompileDef
  \/ CompileRoot
  \/ \E node \in NativeNodes : Native(node)
  \/ Export
  \/ \E v \in Values : Compare(v)

SpecExport == Init /\ [][NextExport]_vars

\* the schema exported compiled, and the two nodes agree on the value compared
RoundTrips ==
  /\ pc \in {"exported", "compared"} => ~Threw(out.again)
  /\ pc = "compared" => ((ok = "true") <=> (out.ok = "true"))

\* C3: for every node built natively or by compile, compile of the schema it
\* exports succeeds and the node it yields accepts the same values.
C3_ExportRoundTrip == valid.k # "notanode" => RoundTrips

\* the round trip does hold for the nodes that hold no reference into a
\* definitions table compile() was given and nothing that is not a node
RoundTripsWithoutReferences ==
  (/\ pc \in {"exported", "compared"}
   /\ RefNames(valid, {"lazyref"}) = {}
   /\ valid.k # "notanode") => RoundTrips

-----------------------------------------------------------------------------
(* fuzz(): the values a node can generate.  Every random draw is a choice   *)
(* from the outcomes it can have, cut to the bounds below; fuzz of a node   *)
(* is the set of the values some sequence of draws gives.                   *)

\* the largest count poisson() is taken to return
MaxPoisson == 1

\* the nesting of references and of values of the empty form that is followed
MaxFuzzDepth == 2

\* bernoulli(prob)
bernoulli == {TRUE, FALSE}

\* poisson(rate)
poisson == 0..MaxPoisson

\* the characters of CHARS that are drawn
CHARS == {"a", ";"}

RECURSIVE chars(_)
\* chars(len): every text of len characters of CHARS
chars(len) ==
  IF len = 0 THEN {""} ELSE {s \o c : s \in chars(len - 1), c \in CHARS}

\* chars(poisson(rate))
charsOfPoisson == UNION {chars(len) : len \in poisson}

\* gaussian(): two of the reals it returns
gaussian == {IntNum(0), Half(-1)}

\* uniform(start, end) = start + floor(random * (end - start)): its least and greatest result
uniform(start, end) == {start, Pred(end)}

\* new Date(Math.random() * 3153600000000).toISOString(): the first instant and one later
RandomDates == {"1970-01-01T00:00:00.000Z", "2069-12-06T23:59:59.999Z"}

RECURSIVE SeqsUpTo(_, _)
\* Array(n).fill(null).map(() => draw) for n up to max: the sequences over S
SeqsUpTo(S, max) ==
  IF max = 0 THEN {<<>>}
  ELSE {<<>>} \cup {<<x>> \o r : x \in S, r \in SeqsUpTo(S, max - 1)}

\* the values of the extra properties CompiledProperties.fuzz adds
ExtraValues ==
  {Null} \cup {Bool(b) : b \in bernoulli} \cup gaussian \cup {Str(s) : s \in charsOfPoisson}
    \cup {Arr(<<>>), Obj(<<>>)}

RECURSIVE fuzz(_, _, _)
RECURSIVE FuzzEntries(_, _, _)
RECURSIVE FuzzOptional(_, _, _)

\* map(props, ([key, comp]) => [key, comp.fuzz()])
FuzzEntries(e, valids, fuel) ==
  IF e = <<>> THEN {<<>>}
  ELSE {<<<<e[1][1], v>>>> \o r : v \in fuzz(e[1][2], valids, fuel),
                                   r \in FuzzEntries(Tail(e), valids, fuel)}

\* map(filter(oprops, () => bernoulli()), ([key, comp]) => [key, comp.fuzz()])
FuzzOptional(e, valids, fuel) ==
  IF e = <<>> THEN {<<>>}
  ELSE LET others == FuzzOptional(Tail(e), valids, fuel)
       IN others \cup {<<<<e[1][1], v>>>> \o r : v \in fuzz(e[1][2], valids, fuel), r \in others}

\* CompiledProperties.fuzz
PropertiesFuzz(node, valids, fuel) ==
  LET req == FuzzEntries(node.props.e, valids, fuel)
      opt == FuzzOptional(node.oprops.e, valids, fuel)
      extra == IF node.additional
                 THEN SeqsUpTo({<<key, val>> : key \in charsOfPoisson, val \in ExtraValues}, MaxPoisson)
               ELSE {<<>>}
  IN {Obj(FromEntries(r \o o \o x)) : r \in req, o \in opt, x \in extra}

\* CompiledEmpty.fuzz
EmptyFuzz(node, valids, fuel) ==
  LET inner == IF fuel = 0 THEN {} ELSE fuzz(node, valids, fuel - 1)
  IN {Null} \cup {Bool(b) : b \in bernoulli} \cup gaussian \cup {Str(s) : s \in charsOfPoisson}
       \cup {Arr(a) : a \in SeqsUpTo(inner, MaxPoisson)}
       \cup {Obj(FromEntries(e)) :
               e \in SeqsUpTo({<<key, val>> : key \in charsOfPoisson, val \in inner}, MaxPoisson)}

\* node.fuzz(): the values it can return (none where it raises)
fuzz(node, valids, fuel) ==
  CASE node.k = "nullable" -> {Null} \cup fuzz(node.wrapped, valids, fuel)
    [] node.k = "metadata" -> fuzz(node.wrapped, valids, fuel)
    [] node.k = "empty" -> EmptyFuzz(node, valids, fuel)
    [] node.k = "boolean" -> {Bool(b) : b \in bernoulli}
    [] node.k = "int" -> uniform(node.lower, node.upper)
    [] node.k = "float" -> gaussian
    [] node.k = "string" -> {Str(s) : s \in charsOfPoisson}
    [] node.k = "timestamp" -> {Str(s) : s \in RandomDates}
    [] node.k = "enum" -> {Str(node.vals[i]) : i \in 1..Len(node.vals)}
    [] node.k = "elements" ->
         {Arr(a) : a \in SeqsUpTo(fuzz(node.element, valids, fuel), MaxPoisson)}
    [] node.k = "values" ->
         {Obj(FromEntries(e)) :
            e \in SeqsUpTo({<<key, val>> : key \in charsOfPoisson,
                                           val \in fuzz(node.values, valids, fuel)}, MaxPoisson)}
    [] node.k = "properties" -> PropertiesFuzz(node, valids, fuel)
    [] node.k = "discriminator" ->
         UNION { {Obj(Put(v.e, node.discriminator, Str(node.entries[i][1]))) :
                    v \in fuzz(node.entries[i][2], valids, fuel)}
                 : i \in 1..Len(node.entries) }
    [] node.k = "definitions" -> fuzz(node.val, valids, fuel)
    [] node.k = "ref" -> fuzz(node.val, valids, fuel)
    [] node.k = "notanode" -> {}
    [] node.k = "lazyref" ->
         LET val == validator(valids, node.ref)
         IN IF val = Func \/ Threw(val) \/ fuel = 0 THEN {}
            ELSE fuzz(val, valids, fuel - 1)

\* v = valid.fuzz() for some outcome of the draws, then valid.guard(v)
Fuzz ==
  /\ pc = "done"
  /\ \E v \in fuzz(valid, validDefs, MaxFuzzDepth) :
       /\ inp' = v
       /\ ok' = guard(valid, v, validDefs)
       /\ errors' = pathErrors(valid, v, validDefs, Len(validDefs))
  /\ pc' = "fuzzed"
  /\ UNCHANGED <<schema, defs, validDefs, valid, out>>

NextFuzz ==
  \/ \E doc \in RootDocs : CompileStart(doc)
  \/ CompileDef
  \/ CompileRoot
  \/ \E node \in NativeNodes : Native(node)
  \/ Fuzz

SpecFuzz == Init /\ [][NextFuzz]_vars

\* C2: every value the fuzz of a node returns, whatever the draws, is
\* accepted by the guard of the node.
C2_FuzzPassesGuard == pc = "fuzzed" => ok = "true"

\* the same for the nodes that are no Properties node with additional
\* properties allowed and hold none
RECURSIVE AdditionalAllowed(_)
RECURSIVE AdditionalAllowedIn(_)
AdditionalAllowedIn(e) ==
  e # <<>> /\ (AdditionalAllowed(e[1][2]) \/ AdditionalAllowedIn(Tail(e)))

AdditionalAllowed(node) ==
  CASE node.k \in {"nullable", "metadata"} -> AdditionalAllowed(node.wrapped)
    [] node.k = "elements" -> AdditionalAllowed(node.element)
    [] node.k = "values" -> AdditionalAllowed(node.values)
    [] node.k = "properties" ->
         node.additional \/ AdditionalAllowedIn(node.props.e) \/ AdditionalAllowedIn(node.oprops.e)
    [] node.k = "discriminator" -> AdditionalAllowedIn(node.entries)
    [] node.k = "definitions" -> AdditionalAllowedIn(node.defs) \/ AdditionalAllowed(node.val)
    [] node.k = "ref" -> AdditionalAllowed(node.val)
    [] OTHER -> FALSE

FuzzPassesGuardWithoutExtras ==
  (pc = "fuzzed" /\ ~AdditionalAllowed(valid) /\ ~AdditionalAllowedIn(validDefs)) => ok = "true"

-----------------------------------------------------------------------------
(* Properties of the compiler's structural checks *)

\* the keys a schema object may carry beside nullable and metadata, form by form
FormKeySets ==
  { {}, {"type"}, {"enum"}, {"elements"}, {"values"}, {"ref"}, {"discriminator", "mapping"},
    {"properties"}, {"optionalProperties"}, {"properties", "optionalProperties"},
    {"properties", "additionalProperties"}, {"optionalProperties", "additionalProperties"},
    {"properties", "optionalProperties", "additionalProperties"} }

RECURSIVE OneForm(_)
RECURSIVE OneFormEach(_)
\* every schema among the values of the entries e is of one form
OneFormEach(e) == e = <<>> \/ (OneForm(e[1][2]) /\ OneFormEach(Tail(e)))

\* the raw schema s, and every schema nested in it, is an object with the
\* keys of exactly one form and no other key
OneForm(s) ==
  /\ s.t = "object"
  /\ (KeySet(s.e) \ {"nullable", "metadata"}) \in FormKeySets
  /\ \A key \in {"elements", "values"} : HasOwn(s.e, key) => OneForm(Own(s, key))
  /\ \A key \in {"properties", "optionalProperties", "mapping"} :
       HasOwn(s.e, key) => (Own(s, key).t = "object" /\ OneFormEach(Own(s, key).e))

\* C11: whenever compile has returned a node, the root schema, every
\* definition and every schema nested in them had the keys of exactly one
\* form and no key the form does not consume; a schema object that mixes
\* forms or carries a leftover key, at any depth, makes compile raise.
C11_OneFormOrRaise ==
  (schema # Undefined /\ pc \in {"done", "checked"}) =>
    (OneForm(schema) /\ OneFormEach(defs))

\* compile raised for a schema nested in the root that mixes two forms
C11_Witness ==
  /\ pc = "failed"
  /\ schema = Doc1("elements", With(TypeDoc("boolean"), "enum", Arr(<<Str("x")>>)))
  /\ valid = Throw("schema had extra keys: enum")

\* the node owns a definitions table, bare or under Nullable / Metadata wrappers
RECURSIVE OwnsDefinitions(_)
OwnsDefinitions(node) ==
  IF node.k \in {"nullable", "metadata"} THEN OwnsDefinitions(node.wrapped)
  ELSE node.k = "definitions"

RECURSIVE HasDefinitionsKey(_)
RECURSIVE AnyHasDefinitionsKey(_)
AnyHasDefinitionsKey(e) ==
  e # <<>> /\ (HasDefinitionsKey(e[1][2]) \/ AnyHasDefinitionsKey(Tail(e)))

\* the raw schema s, or a schema nested in it, carries a `definitions` key
HasDefinitionsKey(s) ==
  /\ s.t = "object"
  /\ \/ HasOwn(s.e, "definitions")
     \/ \E key \in {"elements", "values"} : HasOwn(s.e, key) /\ HasDefinitionsKey(Own(s, key))
     \/ \E key \in {"properties", "optionalProperties", "mapping"} :
          HasOwn(s.e, key) /\ Own(s, key).t = "object" /\ AnyHasDefinitionsKey(Own(s, key).e)

DefinitionsBelowRoot == Throw("definitions can only exist on a root schema")

\* C12: elements, values, properties and discriminator raise when the child
\* they are given owns a definitions table, bare or under Nullable and
\* Metadata wrappers; and compile returns no node for a document with a
\* `definitions` key below the root or inside a definitions entry.
C12_DefinitionsOnlyAtRoot ==
  /\ (out.k = "embed" /\ OwnsDefinitions(out.child)) => valid = DefinitionsBelowRoot
  /\ (schema # Undefined /\ pc \in {"done", "checked", "embedded"})
       => (~HasDefinitionsKey(schema) /\ ~AnyHasDefinitionsKey(defs))

\* values() raised for a defining root under two wrappers
C12_Witness ==
  /\ pc = "rejected"
  /\ out.k = "embed"
  /\ out.form = "values"
  /\ out.child.k = "metadata"
  /\ out.child.wrapped.k = "nullable"
  /\ out.child.wrapped.wrapped.k = "definitions"
  /\ valid = DefinitionsBelowRoot

\* the raw schema b is of the properties form, not nullable, and does not
\* declare the key tag
RawBranchFits(b, tag) ==
  /\ b.t = "object"
  /\ HasOwn(b.e, "properties") \/ HasOwn(b.e, "optionalProperties")
  /\ Get(b.e, "nullable") # Bool(TRUE)
  /\ \A key \in {"properties", "optionalProperties"} :
       HasOwn(b.e, key) => (Own(b, key).t = "object" /\ tag \notin KeySet(Own(b, key).e))

\* the mapping of a raw discriminator form
RawMapping(s) == Own(s, "mapping").e

RECURSIVE DisjointKeys(_)
RECURSIVE DisjointKeysEach(_)
DisjointKeysEach(e) == e = <<>> \/ (DisjointKeys(e[1][2]) /\ DisjointKeysEach(Tail(e)))

\* every Properties node in `node` has disjoint required and optional keys
\* whose union is its set of recognized keys
DisjointKeys(node) ==
  CASE node.k \in {"nullable", "metadata"} -> DisjointKeys(node.wrapped)
    [] node.k = "elements" -> DisjointKeys(node.element)
    [] node.k = "values" -> DisjointKeys(node.values)
    [] node.k = "properties" ->
         /\ KeySet(node.props.e) \cap KeySet(node.oprops.e) = {}
         /\ node.keys = KeySet(node.props.e) \cup KeySet(node.oprops.e)
         /\ DisjointKeysEach(node.props.e)
         /\ DisjointKeysEach(node.oprops.e)
    [] node.k = "discriminator" -> DisjointKeysEach(node.entries)
    [] node.k = "definitions" -> DisjointKeysEach(node.defs) /\ DisjointKeys(node.val)
    [] node.k = "ref" -> DisjointKeys(node.val)
    [] OTHER -> TRUE

\* the keys the raw properties form s declares under `key`
RawKeys(s, key) ==
  IF HasOwn(s.e, key) /\ Own(s, key).t = "object" THEN KeySet(Own(s, key).e) ELSE {}

\* C14: every Properties node that exists, at the root, nested or in a
\* compiled definition, has disjoint required and optional keys whose union
\* is its recognized-keys set; a form that names a key in both maps gives
\* no node.
C14_DisjointKeys ==
  /\ DisjointKeys(valid)
  /\ DisjointKeysEach(validDefs)
  /\ (schema # Undefined /\ pc \in {"done", "checked", "embedded"})
       => RawKeys(schema, "properties") \cap RawKeys(schema, "optionalProperties") = {}

\* compile raised for a form that names the key a in both maps
C14_Witness ==
  /\ pc = "failed"
  /\ schema # Undefined
  /\ "a" \in RawKeys(schema, "properties") \cap RawKeys(schema, "optionalProperties")
  /\ valid = Throw("properties and optionalProperties keys must be unique")

\* the raw value is a non-empty array of strings without repetition
DistinctStrings(raw) ==
  /\ raw.t = "array"
  /\ Len(raw.a) > 0
  /\ \A i \in 1..Len(raw.a) : raw.a[i].t = "string"
  /\ \A i, j \in 1..Len(raw.a) : raw.a[i] = raw.a[j] => i = j

\* C15: compile returns a node for an enum form only when its `enum` value
\* is a non-empty array of distinct strings; the Enum node then holds
\* exactly that list and accepts exactly the strings in it.
C15_EnumOfDistinctStrings ==
  (schema # Undefined /\ pc \in {"done", "checked", "embedded"} /\ HasOwn(schema.e, "enum")) =>
    LET raw == Own(schema, "enum")
        node == IF out.k = "embed" THEN Unwrapped(out.child) ELSE Unwrapped(valid)
    IN /\ DistinctStrings(raw)
       /\ node.k = "enum"
       /\ node.vals = [i \in 1..Len(raw.a) |-> raw.a[i].s]
       /\ (pc = "checked" /\ ~(valid.k = "nullable" /\ inp = Null))
            => ((ok = "true") <=> (inp.t = "string" /\ \E i \in 1..Len(raw.a) : raw.a[i] = inp))

\* compile raised for an enum form that lists the same string twice
C15_Witness ==
  /\ pc = "failed"
  /\ schema = Doc1("enum", Arr(<<Str("x"), Str("x")>>))
  /\ valid = Throw("enum can't contain duplicates")

RECURSIVE OutermostFirst(_)
\* the accessors of a path from the root of the value inwards, as one text
OutermostFirst(path) ==
  IF path = <<>> THEN ""
  ELSE path[Len(path)] \o OutermostFirst(SubSeq(path, 1, Len(path) - 1))

\* guardAssert of the validation recorded returns true when there is no
\* entry, and otherwise raises one Error with a line for every entry, in order
AssertListsEveryEntry ==
  LET a == guardAssert(valid, inp, validDefs)
  IN /\ errors.errs = <<>> => a.k = "true"
     /\ errors.errs # <<>> =>
          /\ a.k = "throw" /\ a.name = "Error"
          /\ Len(a.lines) = Len(errors.errs)
          /\ \A i \in 1..Len(errors.errs) :
               a.lines[i] = (IF errors.errs[i].path = <<>> THEN "."
                             ELSE OutermostFirst(errors.errs[i].path))
                              \o ": " \o errors.errs[i].msg

\* C16: guard of a value returns true or false and never raises, and
\* guardAssert returns true when the enumeration is empty and otherwise
\* raises one error that lists every entry of the enumeration, in order.
C16_GuardNeverRaises ==
  pc = "checked" => (ok \in {"true", "false"} /\ AssertListsEveryEntry)

\* the same where the enumeration itself ran to its end
GuardAssertWhenEnumerationEnds ==
  (pc = "checked" /\ errors.thrown = "") => (ok \in {"true", "false"} /\ AssertListsEveryEntry)

\* the exceptions come from these: a name that plain objects inherit used as
\* tag value, reference or type, and a reference chain that never reaches a form
RaisesOnlyFor ==
  (pc = "checked" /\ errors.thrown # "") =>
    \/ errors.thrown = "RangeError"
    \/ valid.k = "notanode"
    \/ RefNames(valid, {"lazyref"}) \cap ProtoKeys # {}
    \/ inp.t = "object" /\ \E i \in 1..Len(inp.e) : inp.e[i][2] = Str("constructor")
    \/ \E i \in 1..Len(validDefs) : RefNames(validDefs[i][2], {"lazyref"}) \cap ProtoKeys # {}

\* C17: for every schema compile accepts, definitions that refer to
\* themselves or to each other included, the error enumeration of a value
\* comes to an end (it does not follow references without end), so that
\* guard returns.
C17_EnumerationEnds ==
  (pc = "checked" /\ schema # Undefined) => errors.thrown # "RangeError"

RECURSIVE ReachesForm(_, _, _)
\* the node is a form, or a chain of at most n references and wrappers that leads to one
ReachesForm(node, valids, n) ==
  CASE node.k \in {"nullable", "metadata"} -> ReachesForm(node.wrapped, valids, n)
    [] node.k = "lazyref" ->
         /\ n > 0
         /\ HasOwn(valids, node.ref)
         /\ ReachesForm(valids[IndexOf(valids, node.ref, 1)][2], valids, n - 1)
    [] OTHER -> TRUE

\* the enumeration does end when every definition leads to a form
EndsWhenDefinitionsReachForms ==
  (pc = "checked" /\ \A i \in 1..Len(validDefs) : ReachesForm(validDefs[i][2], validDefs, Len(validDefs)))
    => errors.thrown # "RangeError"

\* C18: the node compile returns is tagged as a defining root (its
\* definitions flag is set), so that handing it as a child to elements,
\* values, properties or discriminator raises 'definitions can only exist on
\* a root schema', as a root made by the definitions builder does.
C18_CompileResultIsRoot ==
  /\ (schema # Undefined /\ pc \in {"done", "checked"}) => Definitions(valid)
  /\ (schema # Undefined /\ out.k = "embed") => valid = DefinitionsBelowRoot

\* a root that owns a definitions table carries the flag, under wrappers too
DefiningRootIsTagged ==
  (pc \in {"done", "checked"} /\ OwnsDefinitions(valid)) => Definitions(valid)

\* compile builds no node that owns a definitions table
CompileBuildsNoDefiningRoot ==
  (schema # Undefined /\ pc \in {"done", "checked"}) => ~OwnsDefinitions(valid)

\* the exported document holds, under `definitions`, the export of each entry of the table
ExportsTable(raw, table) ==
  /\ HasOwn(raw.e, "definitions")
  /\ LET ds == Get(raw.e, "definitions")
     IN /\ ds.t = "object"
        /\ KeySet(ds.e) = KeySet(table)
        /\ \A i \in 1..Len(table) : Get(ds.e, table[i][1]) = Schema(table[i][2])

\* C19: for a document that declares a definitions table, the schema() of
\* the node compile returns has a `definitions` member holding the export of
\* every declared definition next to the root form, as the schema() of a
\* root made by the definitions builder has.
C19_ExportKeepsDefinitions ==
  (/\ pc \in {"exported", "compared"}
   /\ schema # Undefined
   /\ defs # <<>>
   /\ out.raw.t = "object") => ExportsTable(out.raw, validDefs)

\* the export of a root made by the definitions builder holds its table
BuilderExportKeepsDefinitions ==
  (/\ pc \in {"exported", "compared"}
   /\ valid.k = "definitions"
   /\ out.raw.t = "object") => ExportsTable(out.raw, valid.defs)

\* the export of a compile result holds the root form alone
CompileExportIsRootForm ==
  (/\ pc \in {"exported", "compared"}
   /\ schema # Undefined
   /\ out.raw.t = "object") => ~HasOwn(out.raw.e, "definitions")

\* the members of the exported Properties document are among those given
ExportsOnlyGiven(raw, required, optional, additional) ==
  /\ HasOwn(raw.e, "properties") => required
  /\ HasOwn(raw.e, "optionalProperties") => optional
  /\ HasOwn(raw.e, "additionalProperties") => additional

\* the document at hand sets additionalProperties to true
SetsAdditional(s) ==
  HasOwn(s.e, "additionalProperties") /\ Own(s, "additionalProperties") = Bool(TRUE)

\* C20: the export of a Properties node has `properties` only if a required
\* map was specified, `optionalProperties` only if an optional map was
\* specified and `additionalProperties` only if it was set, for nodes built
\* natively and for nodes built by compile (a document with only
\* `optionalProperties` exports without `properties`, and the other way round).
C20_ExportsOnlySpecifiedMaps ==
  (/\ pc \in {"exported", "compared"}
   /\ valid.k = "properties"
   /\ out.raw.t = "object")
    => IF schema = Undefined
         THEN ExportsOnlyGiven(out.raw, valid.props.has, valid.oprops.has, valid.additional)
         ELSE ExportsOnlyGiven(out.raw, HasOwn(schema.e, "properties"),
                               HasOwn(schema.e, "optionalProperties"), SetsAdditional(schema))

\* the export of a natively built Properties node has the maps it was given and the flag when set
NativeExportsOnlySpecifiedMaps ==
  (/\ pc \in {"exported", "compared"}
   /\ schema = Undefined
   /\ valid.k = "properties"
   /\ out.raw.t = "object")
    => /\ HasOwn(out.raw.e, "properties") <=> valid.props.has
       /\ HasOwn(out.raw.e, "optionalProperties") <=> valid.oprops.has
       /\ HasOwn(out.raw.e, "additionalProperties") <=> valid.additional

\* the export of a compiled Properties node has both maps always, and the flag only when set
CompiledExportsBothMaps ==
  (/\ pc \in {"exported", "compared"}
   /\ schema # Undefined
   /\ valid.k = "properties"
   /\ out.raw.t = "object")
    => /\ HasOwn(out.raw.e, "properties")
       /\ HasOwn(out.raw.e, "optionalProperties")
       /\ HasOwn(out.raw.e, "additionalProperties") <=> SetsAdditional(schema)

-----------------------------------------------------------------------------
(* Properties nodes and the maps they were given.                           *)

GivenAMap(node) == node.props.has \/ node.oprops.has

RECURSIVE EveryProperties(_)
\* every Properties node in the graph of node was given a map (references are not followed)
EveryProperties(node) ==
  CASE node.k \in {"nullable", "metadata"} -> EveryProperties(node.wrapped)
    [] node.k = "elements" -> EveryProperties(node.element)
    [] node.k = "values" -> EveryProperties(node.values)
    [] node.k = "definitions" ->
         /\ EveryProperties(node.val)
         /\ \A i \in 1..Len(node.defs) : EveryProperties(node.defs[i][2])
    [] node.k = "discriminator" ->
         \A i \in 1..Len(node.mapping) : EveryProperties(node.mapping[i][2])
    [] node.k = "properties" ->
         /\ GivenAMap(node)
         /\ \A i \in 1..Len(node.props.e) : EveryProperties(node.props.e[i][2])
         /\ \A i \in 1..Len(node.oprops.e) : EveryProperties(node.oprops.e[i][2])
    [] OTHER -> TRUE

\* C21: a Properties node cannot be made with neither a required map nor an
\* optional map: every Properties node that exists was given at least one.
C21_PropertiesGivenAMap ==
  (pc \in {"done", "checked"} /\ ~Threw(valid) /\ valid.k # "notanode")
    => EveryProperties(valid)

\* every Properties node compile builds was given a map (both, in fact)
CompiledPropertiesGivenAMap ==
  (schema # Undefined /\ pc \in {"done", "checked"} /\ valid.k # "notanode")
    => /\ EveryProperties(valid)
       /\ \A i \in 1..Len(validDefs) :
            validDefs[i][2].k # "notanode" => EveryProperties(validDefs[i][2])

-----------------------------------------------------------------------------
(* The paths of the report raised by guardAssert.                           *)

\* a key that is a bare identifier: a letter or underscore, then letters, digits, underscores
BareIdentifier(key) ==
  /\ key # ""
  /\ SubSeq(key, 1, 1) \in Letters
  /\ \A i \in 2..Len(key) : SubSeq(key, i, i) \in Letters \cup Digits

\* the values one accessor leads to from v: [i] for position i of an array,
\* .key for a bare identifier key of an object and ["key"] for any other key
Accessed(v, accessor) ==
  CASE v.t = "array" -> {v.a[i] : i \in {j \in 1..Len(v.a) : accessor = "[" \o ToString(j - 1) \o "]"}}
    [] v.t = "object" ->
         {v.e[i][2] : i \in {j \in 1..Len(v.e) :
            accessor = (IF BareIdentifier(v.e[j][1]) THEN "." \o v.e[j][1]
                        ELSE "[\"" \o v.e[j][1] \o "\"]")}}
    [] OTHER -> {}

RECURSIVE LeadsInto(_, _)
\* the accessors, taken from the first, lead from v to a value inside it
LeadsInto(v, accessors) ==
  accessors = <<>> \/ \E child \in Accessed(v, accessors[1]) : LeadsInto(child, Tail(accessors))

Reversed(s) == [i \in 1..Len(s) |-> s[Len(s) + 1 - i]]

RECURSIVE Joined(_)
Joined(s) == IF s = <<>> THEN "" ELSE s[1] \o Joined(Tail(s))

\* C22: in the report of guardAssert the path of a violation lists the
\* accessors from the outermost container down to the offending value:
\* array positions as [i], bare identifier keys as .key, every other key as
\* ["key"]; a violation at the root is rendered as a single '.'.
C22_ReportedPaths ==
  (pc = "checked" /\ errors.thrown = "" /\ errors.errs # <<>>) =>
    LET a == guardAssert(valid, inp, validDefs)
    IN /\ a.k = "throw"
       /\ Len(a.lines) = Len(errors.errs)
       /\ \A i \in 1..Len(a.lines) :
            \E accessors \in {Reversed(errors.errs[i].path)} :
              /\ LeadsInto(inp, accessors)
              /\ a.lines[i] = (IF accessors = <<>> THEN "." ELSE Joined(accessors))
                                \o ": " \o errors.errs[i].msg

\* a report with the path .foo[1]["weird key"], and one at the root
C22_Witness ==
  /\ pc = "checked"
  /\ valid.k = "properties"
  /\ inp = Doc1("foo", Arr(<<Obj(<<>>), Obj(<<<<"weird key", IntNum(0)>>, <<"a", Bool(TRUE)>>>>)>>))
  /\ guardAssert(valid, inp, validDefs).lines
       = <<".foo[1][\"weird key\"]: number is not a boolean">>

-----------------------------------------------------------------------------
(* Several compile calls in one program.  Every call makes a Compiler of    *)
(* its own, whose validDefs object the references it compiles keep; the     *)
(* tables are kept here in the order the Compilers were made, and a result  *)
(* holds the place of the table of its Compiler.                            *)

\* the number of compile calls followed
MaxCalls == 3

TwiceDocs ==
  { With(RefDoc("a"), "definitions", Obj(<<<<"a", TypeDoc("boolean")>>>>)),
    With(RefDoc("a"), "definitions", Obj(<<<<"a", TypeDoc("uint8")>>>>)),
    With(Doc1("elements", RefDoc("a")), "definitions",
         Obj(<<<<"a", With(Doc1("elements", RefDoc("a")), "nullable", Bool(TRUE))>>>>)),
    With(TypeDoc("boolean"), "definitions",
         Obj(<<<<"a", TypeDoc("string")>>, <<"b", RefDoc("zz")>>>>)),
    TypeDoc("boolean"),
    RefDoc("a") }

TwiceValues == {Null, Bool(TRUE), IntNum(0), Str("x"), Arr(<<>>), Arr(<<Null>>)}

\* one table for every Compiler
StaticValidDefs(tables) == IF tables = <<>> THEN <<<<>>>> ELSE tables

\* readonly validDefs = {}: the Compiler made gets a new, empty table
NewValidDefs(tables) == Append(tables, <<>>)

RECURSIVE ConstructorInto(_, _, _)
\* the loop of the Compiler constructor over the first n entries, writing
\* this.validDefs[key]: the table as the loop leaves it, and what it raised
ConstructorInto(table, rawDefs, n) ==
  IF n = 0 THEN [e |-> table, raised |-> Undefined]
  ELSE LET before == ConstructorInto(table, rawDefs, n - 1)
       IN IF before.raised # Undefined THEN before
          ELSE LET comp == CompilerCompile(rawDefs[n][2], rawDefs, before.e)
               IN IF Threw(comp) THEN [e |-> before.e, raised |-> comp]
                  ELSE [e |-> Put(before.e, rawDefs[n][1], comp), raised |-> Undefined]

\* compile(doc) in a program that holds the tables given: the tables after
\* the call, the node returned or what was raised, and the place of the
\* table of the Compiler made (0 when none was made)
CompileOn(tables, doc) ==
  IF doc.t # "object" THEN [tables |-> tables, res |-> Throw("schema must be an object"), id |-> 0]
  ELSE LET d == Get(doc.e, "definitions")
           definitions == IF d = Undefined THEN Obj(<<>>) ELSE d
           rest == Obj(Without(doc.e, {"definitions"}))
       IN IF ~isRecord(definitions)
            THEN [tables |-> tables, res |-> Throw("definitions must be an object"), id |-> 0]
          ELSE LET made == NewValidDefs(tables)
                   id == Len(made)
                   loop == ConstructorInto(made[id], definitions.e, Len(definitions.e))
                   after == [made EXCEPT ![id] = loop.e]
               IN [tables |-> after,
                   res |-> IF loop.raised # Undefined THEN loop.raised
                           ELSE CompilerCompile(rest, definitions.e, loop.e),
                   id |-> id]

\* what a result does now: its export and its guard of each value
Behaviour(tables, res, id) ==
  IF Threw(res) THEN res
  ELSE [k |-> "node", schema |-> Schema(res),
        guard |-> [v \in TwiceValues |-> guard(res, v, tables[id])]]

InitTwice ==
  /\ pc = "start"
  /\ schema = Undefined
  /\ defs = <<>>
  /\ validDefs = <<>>
  /\ valid = Idle
  /\ inp = Undefined
  /\ ok = "none"
  /\ errors = Done(<<>>)
  /\ out = [k |-> "calls", tables |-> <<>>, results |-> <<>>]

\* a call of compile(doc), after whatever calls came before
CompileCall(doc) ==
  /\ Len(out.results) < MaxCalls
  /\ \E r \in {CompileOn(out.tables, doc)} :
        /\ out' = [k |-> "calls", tables |-> r.tables,
                   results |-> Append(out.results,
                                 [doc |-> doc, res |-> r.res, id |-> r.id,
                                  was |-> Behaviour(r.tables, r.res, r.id)])]
        /\ valid' = r.res
        /\ validDefs' = IF r.id = 0 THEN <<>> ELSE r.tables[r.id]
        /\ pc' = IF Threw(r.res) THEN "failed" ELSE "done"
  /\ schema' = doc
  /\ UNCHANGED <<defs, inp, ok, errors>>

\* guard(v) of the node an earlier call returned
GuardCall(i, v) ==
  /\ i \in 1..Len(out.results)
  /\ ~Threw(out.results[i].res)
  /\ schema' = out.results[i].doc
  /\ valid' = out.results[i].res
  /\ validDefs' = out.tables[out.results[i].id]
  /\ inp' = v
  /\ ok' = guard(valid', v, validDefs')
  /\ errors' = pathErrors(valid', v, validDefs', Len(validDefs'))
  /\ pc' = "checked"
  /\ UNCHANGED <<defs, out>>

\* fuzz() of the node an earlier call returned
FuzzCall(i) ==
  /\ i \in 1..Len(out.results)
  /\ ~Threw(out.results[i].res)
  /\ schema' = out.results[i].doc
  /\ valid' = out.results[i].res
  /\ validDefs' = out.tables[out.results[i].id]
  /\ \E v \in fuzz(valid', validDefs', MaxFuzzDepth) :
       /\ inp' = v
       /\ ok' = guard(valid', v, validDefs')
       /\ errors' = pathErrors(valid', v, validDefs', Len(validDefs'))
  /\ pc' = "fuzzed"
  /\ UNCHANGED <<defs, out>>

NextTwice ==
  \/ \E doc \in TwiceDocs : CompileCall(doc)
  \/ \E i \in 1..MaxCalls, v \in TwiceValues : GuardCall(i, v)
  \/ \E i \in 1..MaxCalls : FuzzCall(i)

SpecTwice == InitTwice /\ [][NextTwice]_vars

\* C23: compiling the same raw schema twice, with other compile, guard and
\* fuzz calls in between, gives two nodes with the same guard result for
\* every value and the same export; and no call changes what a node
\* compiled earlier does.
C23_CompileLeavesNoTrace ==
  /\ \A i \in 1..Len(out.results) :
       Behaviour(out.tables, out.results[i].res, out.results[i].id) = out.results[i].was
  /\ \A i, j \in 1..Len(out.results) :
       out.results[i].doc = out.results[j].doc
         => Behaviour(out.tables, out.results[i].res, out.results[i].id)
              = Behaviour(out.tables, out.results[j].res, out.results[j].id)

\* a schema compiled, another with the same definition name compiled, the
\* first compiled again, and the first node used after that
C23_Witness ==
  /\ Len(out.results) = 3
  /\ out.results[1].doc = With(RefDoc("a"), "definitions", Obj(<<<<"a", TypeDoc("boolean")>>>>))
  /\ out.results[2].doc = With(RefDoc("a"), "definitions", Obj(<<<<"a", TypeDoc("uint8")>>>>))
  /\ out.results[3].doc = out.results[1].doc
  /\ out.results[1].was.k = "node"
  /\ pc = "checked"
  /\ valid = out.results[1].res
  /\ inp = Bool(TRUE)
  /\ ok = "true"

-----------------------------------------------------------------------------
(* The definitions builder.  A builder is a pair of objects: the nodes      *)
(* defined so far and a reference handle for each; the program holds the    *)
(* builders it has made, in the order it made them.                         *)

\* the number of builders followed, the one of definitions() included
MaxBuilders == 4

DefinitionsBuilder(ds, refs) == [k |-> "builder", defs |-> ds, refs |-> refs]

\* definitions()
NewDefinitions == DefinitionsBuilder(<<>>, <<>>)

BuilderNames == {"x", "y"}

\* the functions handed to def and build: () => boolean(), () => string(),
\* () => definitions().build(() => boolean()), ({n}) => n and ({n}) => elements(n)
Callbacks ==
  {[k |-> "boolean", of |-> ""], [k |-> "string", of |-> ""], [k |-> "root", of |-> ""]}
    \cup {[k |-> form, of |-> n] : form \in {"handle", "elements"}, n \in BuilderNames}

\* val(this.#refs): what the function returns for the handles given
Apply(call, refs) ==
  CASE call.k = "boolean" -> boolean
    [] call.k = "string" -> string
    [] call.k = "root" -> CompiledDefinitions(<<>>, boolean)
    [] call.k = "handle" -> Get(refs, call.of)
    [] call.k = "elements" -> elements(Get(refs, call.of))

\* b.def(name, val): the builder returned, or what the function raised
def(b, name, call) ==
  LET comp == Apply(call, b.refs)
  IN IF Threw(comp) THEN comp
     ELSE DefinitionsBuilder(Put(b.defs, name, comp), Put(b.refs, name, CompiledRef(name, comp)))

\* b.build(val)
build(b, call) ==
  LET val == Apply(call, b.refs)
  IN IF Threw(val) THEN val ELSE CompiledDefinitions(b.defs, val)

\* a def that writes the definition into the receiving builder as well
DefInPlace(bs, i, made) == Append([bs EXCEPT ![i] = made], made)

\* the builders of the program after builder i returned the builder made from its def
Returned(bs, i, made) == Append(bs, made)

BuilderValues == {Null, Bool(TRUE), Str("x"), Arr(<<Bool(TRUE)>>), Arr(<<Str("x")>>)}

InitBuilder ==
  /\ pc = "start"
  /\ schema = Undefined
  /\ defs = <<>>
  /\ validDefs = <<>>
  /\ valid = Idle
  /\ inp = Undefined
  /\ ok = "none"
  /\ errors = Done(<<>>)
  /\ out = [k |-> "builders", bs |-> <<NewDefinitions>>, declared |-> << <<>> >>]

\* the function is one a program can hand to builder b: it names declared handles only
Fits(call, b) == call.of = "" \/ HasOwn(b.refs, call.of)

\* out.bs[i].def(name, call)
DefStep(i, name, call) ==
  /\ pc = "start"
  /\ Len(out.bs) < MaxBuilders
  /\ i \in 1..Len(out.bs)
  /\ Fits(call, out.bs[i])
  /\ \E made \in {def(out.bs[i], name, call)} :
       IF Threw(made) THEN
         /\ valid' = made
         /\ pc' = "failed"
         /\ UNCHANGED out
       ELSE
         /\ out' = [out EXCEPT !.bs = Returned(out.bs, i, made),
                               !.declared = Append(out.declared, Append(out.declared[i], name))]
         /\ UNCHANGED <<valid, pc>>
  /\ UNCHANGED <<schema, defs, validDefs, inp, ok, errors>>

\* out.bs[i].build(call)
BuildStep(i, call) ==
  /\ pc = "start"
  /\ i \in 1..Len(out.bs)
  /\ Fits(call, out.bs[i])
  /\ valid' = build(out.bs[i], call)
  /\ pc' = IF Threw(valid') THEN "failed" ELSE "done"
  /\ out' = [out EXCEPT !.k = "built"]
  /\ UNCHANGED <<schema, defs, validDefs, inp, ok, errors>>

NextBuilder ==
  \/ \E i \in 1..MaxBuilders, name \in BuilderNames, call \in Callbacks : DefStep(i, name, call)
  \/ \E i \in 1..MaxBuilders, call \in Callbacks : BuildStep(i, call)
  \/ \E v \in BuilderValues : Validate(v)

SpecBuilder == InitBuilder /\ [][NextBuilder]_vars

RECURSIVE DefiningBelow(_)
RECURSIVE DefiningAmong(_)
\* one of the nodes of the entries owns a definitions table or has such a node below it
DefiningAmong(e) ==
  e # <<>> /\ (OwnsDefinitions(e[1][2]) \/ DefiningBelow(e[1][2]) \/ DefiningAmong(Tail(e)))

\* a node that owns a definitions table is reachable from the node as element
\* schema, value schema, property schema, discriminator branch or reference target
DefiningBelow(node) ==
  CASE node.k \in {"nullable", "metadata"} -> DefiningBelow(node.wrapped)
    [] node.k = "definitions" -> DefiningBelow(node.val)
    [] node.k = "elements" -> OwnsDefinitions(node.element) \/ DefiningBelow(node.element)
    [] node.k = "values" -> OwnsDefinitions(node.values) \/ DefiningBelow(node.values)
    [] node.k = "ref" -> OwnsDefinitions(node.val) \/ DefiningBelow(node.val)
    [] node.k = "properties" -> DefiningAmong(node.props.e) \/ DefiningAmong(node.oprops.e)
    [] node.k = "discriminator" -> DefiningAmong(node.entries)
    [] OTHER -> FALSE

\* C24: in every node graph built through the public constructors, the
\* definitions builder with its reference handles included, no node that
\* owns a definitions table is reachable below the root as element schema,
\* value schema, property schema, discriminator branch or reference target.
C24_NoDefiningNodeBelowRoot ==
  (pc \in {"done", "checked"} /\ ~Threw(valid)) => ~DefiningBelow(valid)

\* the same for the nodes built without reference handles
NoDefiningNodeBelowRootWithoutHandles ==
  (pc \in {"done", "checked", "embedded"} /\ ~Threw(valid) /\ valid.k # "notanode"
     /\ RefNames(valid, {"ref"}) = {}) => ~DefiningBelow(valid)

\* the names in a sequence
NamesIn(s) == {s[i] : i \in 1..Len(s)}

\* C26: a def step returns a new builder and leaves the receiving builder's
\* definitions and reference handles as they were: every builder of the
\* program holds the names declared on the way to it and no other, so after
\* b1 = b.def("x", f) and b2 = b.def("y", g), in any order, b has neither
\* name, b1 has x and not y, and b2 has y and not x.
C26_DefLeavesReceiver ==
  out.k \in {"builders", "built"} =>
    \A i \in 1..Len(out.bs) :
      /\ KeySet(out.bs[i].refs) = NamesIn(out.declared[i])
      /\ KeySet(out.bs[i].defs) = NamesIn(out.declared[i])
      /\ \A j \in 1..Len(out.bs[i].refs) :
           /\ out.bs[i].refs[j][2].k = "ref"
           /\ out.bs[i].refs[j][2].ref = out.bs[i].refs[j][1]

\* b1 = b.def("x", ...) and b2 = b.def("y", ...) were made, and b was built afterwards
C26_Witness ==
  /\ out.k = "built"
  /\ Len(out.bs) = 3
  /\ out.declared = << <<>>, <<"x">>, <<"y">> >>
  /\ out.bs[1] = NewDefinitions
  /\ KeySet(out.bs[2].refs) = {"x"}
  /\ KeySet(out.bs[3].refs) = {"y"}
  /\ pc = "done"
  /\ valid = CompiledDefinitions(<<>>, boolean)

RECURSIVE Handles(_)
RECURSIVE HandlesAmong(_)
HandlesAmong(e) == IF e = <<>> THEN {} ELSE Handles(e[1][2]) \cup HandlesAmong(Tail(e))

\* the reference handles in the graph of the node, those inside the targets of handles included
Handles(node) ==
  CASE node.k \in {"nullable", "metadata"} -> Handles(node.wrapped)
    [] node.k = "elements" -> Handles(node.element)
    [] node.k = "values" -> Handles(node.values)
    [] node.k = "properties" -> HandlesAmong(node.props.e) \cup HandlesAmong(node.oprops.e)
    [] node.k = "discriminator" -> HandlesAmong(node.entries)
    [] node.k = "definitions" -> HandlesAmong(node.defs) \cup Handles(node.val)
    [] node.k = "ref" -> {node} \cup Handles(node.val)
    [] OTHER -> {}

\* the table of the root has, under the name of every handle in the root, a
\* node with the export of the node the handle validates against
TableMatchesHandles(root) ==
  \A h \in Handles(root) :
    /\ HasOwn(root.defs, h.ref)
    /\ Schema(Get(root.defs, h.ref)) = Schema(h.val)

\* C27: for every root made by definitions()...build(), each name of the
\* exported `definitions` maps to the export of the node that the handles
\* exported as {ref: name} inside the root validate against, for any
\* sequence of def calls, one that declares a name twice included.
C27_TableMatchesHandles ==
  (out.k = "built" /\ pc \in {"done", "checked"} /\ valid.val.k # "definitions")
    => TableMatchesHandles(valid)

\* the builder that was built declared every name once
DeclaredOnce(names) == Cardinality(NamesIn(names)) = Len(names)

\* the same for the builders on whose way no name was declared twice
TableMatchesHandlesDeclaredOnce ==
  (/\ out.k = "built"
   /\ pc \in {"done", "checked"}
   /\ valid.val.k # "definitions"
   /\ \E i \in 1..Len(out.bs) : valid.defs = out.bs[i].defs /\ DeclaredOnce(out.declared[i]))
    => TableMatchesHandles(valid)

-----------------------------------------------------------------------------
(* Metadata on the branches of a discriminator.                             *)

\* the mapping entries without their `metadata` members
RECURSIVE BranchesWithoutMetadata(_)
BranchesWithoutMetadata(e) ==
  IF e = <<>> THEN <<>>
  ELSE <<<<e[1][1], Obj(Without(e[1][2].e, {"metadata"}))>>>> \o BranchesWithoutMetadata(Tail(e))

\* the raw schema at hand is a discriminator form whose branches are
\* properties forms, not nullable and without the tag key, one of them with metadata
BranchCarriesMetadata ==
  /\ schema # Undefined
  /\ HasOwn(schema.e, "discriminator") /\ HasOwn(schema.e, "mapping")
  /\ Own(schema, "discriminator").t = "string"
  /\ Own(schema, "mapping").t = "object"
  /\ \A i \in 1..Len(RawMapping(schema)) :
       RawBranchFits(RawMapping(schema)[i][2], Own(schema, "discriminator").s)
  /\ \E i \in 1..Len(RawMapping(schema)) : HasOwn(RawMapping(schema)[i][2].e, "metadata")

\* compile of the schema at hand with the metadata of its branches left out
WithoutBranchMetadata ==
  compile(With(With(schema, "mapping", Obj(BranchesWithoutMetadata(RawMapping(schema)))),
               "definitions", Obj(defs)))

\* C25: compile accepts a discriminator whose mapping branch is a properties
\* form that carries `metadata` (not nullable, tag key not among its
\* properties), and the result accepts the same values as the same schema
\* without the metadata.
C25_MetadataOnBranch ==
  (BranchCarriesMetadata /\ ~Threw(WithoutBranchMetadata)) =>
    /\ pc # "failed"
    /\ pc = "checked" =>
         ok = guard(WithoutBranchMetadata.valid, inp, WithoutBranchMetadata.validDefs)

\* compile of the schema at hand without the `metadata` member of its root
WithoutRootMetadata ==
  compile(With(Obj(Without(schema.e, {"metadata"})), "definitions", Obj(defs)))

\* metadata on the root form is accepted and changes nothing in what is accepted
MetadataOnRootKeepsGuard ==
  (schema # Undefined /\ HasOwn(schema.e, "metadata") /\ ~Threw(WithoutRootMetadata)) =>
    /\ pc # "failed"
    /\ pc = "checked" =>
         ok = guard(WithoutRootMetadata.valid, inp, WithoutRootMetadata.validDefs)

\* a branch with metadata is refused by the discriminator constructor
BranchWithMetadataRefused ==
  (BranchCarriesMetadata /\ pc \in {"failed", "done", "checked"}) =>
    valid = Throw("all discriminator mappings must be properties schemas that don't contain discriminator")

-----------------------------------------------------------------------------
(* fuzz() call by call.  The fuzz of a node calls the fuzz of other nodes;  *)
(* the program keeps the calls that are still to be made, and fuzz returns  *)
(* when none is left.  The values generated play no part here; of the       *)
(* number of calls made so far only the parity is kept.                     *)

\* the most calls kept waiting
MaxPending == 3

CyclicDocs ==
  { With(RefDoc("a"), "definitions", Obj(<<<<"a", RefDoc("a")>>>>)),
    With(Doc1("elements", RefDoc("a")), "definitions",
         Obj(<<<<"a", With(Doc1("elements", RefDoc("a")), "nullable", Bool(TRUE))>>>>)),
    With(RefDoc("a"), "definitions",
         Obj(<<<<"a", PropsDoc(Obj(<<<<"a", RefDoc("a")>>>>), Undefined, Undefined)>>>>)),
    With(RefDoc("a"), "definitions",
         Obj(<<<<"a", PropsDoc(Obj(<<<<"b", TypeDoc("boolean")>>>>), Obj(<<<<"a", RefDoc("a")>>>>), Bool(TRUE))>>>>)),
    With(RefDoc("a"), "definitions",
         Obj(<<<<"a", Doc1("elements", RefDoc("b"))>>, <<"b", Doc1("values", RefDoc("a"))>>>>)),
    With(RefDoc("b"), "definitions",
         Obj(<<<<"a", RefDoc("b")>>, <<"b", With(RefDoc("a"), "nullable", Bool(TRUE))>>>>)),
    DiscDoc("t", Obj(<<<<"x", BranchX>>, <<"y", BranchY>>>>)),
    Doc1("values", Obj(<<>>)),
    Obj(<<>>) }

\* n times the node
Copies(node, n) == [i \in 1..n |-> node]

\* the nodes of the entries
NodesOf(e) == [i \in 1..Len(e) |-> e[i][2]]

\* the calls of fuzz that node.fuzz() makes, for the outcomes of its random
\* draws: with `more` false the outcome that asks for the fewest calls where
\* the node draws the number of its calls (null, an empty collection, no
\* optional key, a leaf value), with `more` true every other case
Calls(node, valids, more) ==
  CASE node.k = "nullable" -> IF more THEN {<<node.wrapped>>} ELSE {<<>>}
    [] node.k = "empty" -> IF more THEN {Copies(node, n) : n \in 1..MaxPoisson} ELSE {<<>>}
    [] node.k = "elements" ->
         IF more THEN {Copies(node.element, n) : n \in 1..MaxPoisson} ELSE {<<>>}
    [] node.k = "values" ->
         IF more THEN {Copies(node.values, n) : n \in 1..MaxPoisson} ELSE {<<>>}
    [] node.k = "properties" /\ node.oprops.e # <<>> ->
         IF more THEN {NodesOf(node.props.e) \o NodesOf(o) :
                         o \in SubSeqs(node.oprops.e, Len(node.oprops.e)) \ {<<>>}}
         ELSE {NodesOf(node.props.e)}
    [] node.k = "properties" /\ node.oprops.e = <<>> ->
         IF more THEN {NodesOf(node.props.e)} ELSE {}
    [] node.k = "metadata" -> IF more THEN {<<node.wrapped>>} ELSE {}
    [] node.k \in {"definitions", "ref"} -> IF more THEN {<<node.val>>} ELSE {}
    [] node.k = "lazyref" -> IF more THEN {<<validator(valids, node.ref)>>} ELSE {}
    [] node.k = "discriminator" ->
         IF more THEN {<<node.entries[i][2]>> : i \in 1..Len(node.entries)} ELSE {}
    [] OTHER -> IF more THEN {<<>>} ELSE {}

\* valid.fuzz() is called
FuzzBegin ==
  /\ pc = "done"
  /\ out' = [k |-> "fuzz", pending |-> <<valid>>, made |-> 0]
  /\ pc' = "fuzzing"
  /\ UNCHANGED <<schema, defs, validDefs, valid, inp, ok, errors>>

\* the next call waiting is made: it raises, or its own calls wait in its place
FuzzStep(more) ==
  /\ pc = "fuzzing"
  /\ out.pending # <<>>
  /\ LET node == Head(out.pending)
     IN IF node = Func \/ Threw(node) \/ node.k = "notanode" THEN
          /\ more
          /\ pc' = "raised"
          /\ UNCHANGED out
        ELSE
          /\ \E calls \in Calls(node, validDefs, more) :
               /\ Len(calls) + Len(out.pending) - 1 <= MaxPending
               /\ out' = [out EXCEPT !.pending = calls \o Tail(out.pending),
                                     !.made = (out.made + 1) % 2]
          /\ UNCHANGED pc
  /\ UNCHANGED <<schema, defs, validDefs, valid, inp, ok, errors>>

\* no call is left: fuzz returns
FuzzReturn ==
  /\ pc = "fuzzing"
  /\ out.pending = <<>>
  /\ pc' = "fuzzed"
  /\ UNCHANGED <<schema, defs, validDefs, valid, inp, ok, errors, out>>

NextFuzzCalls ==
  \/ \E doc \in CyclicDocs \cup RootDocs : CompileStart(doc)
  \/ CompileDef
  \/ CompileRoot
  \/ FuzzBegin
  \/ \E more \in BOOLEAN : FuzzStep(more)
  \/ FuzzReturn

\* every call waiting is made in the end, and where a draw decides the
\* number of calls, the outcome with the fewest is not avoided for ever
SpecFuzzCalls ==
  /\ Init
  /\ [][NextFuzzCalls]_vars
  /\ WF_vars(\E more \in BOOLEAN : FuzzStep(more))
  /\ SF_vars(FuzzStep(FALSE))
  /\ WF_vars(FuzzReturn)

\* C28: for every schema compile accepts, cyclic definitions included, a
\* call of fuzz() returns a value in the end, the random draws being fair.
\* Stated for the end of the call alone: a call that raised has ended too.
C28_FuzzReturns == (pc = "fuzzing" /\ ~Threw(valid)) ~> (pc \in {"fuzzed", "raised"})

\* where every cycle of the definitions passes a draw that can end it, fuzz
\* returns or raises in the end
Endless ==
  \E i \in 1..Len(validDefs) :
    \/ validDefs[i][2].k = "lazyref"
    \/ validDefs[i][2].k = "properties" /\ validDefs[i][2].props.e # <<>>
         /\ \E j \in 1..Len(validDefs[i][2].props.e) :
               validDefs[i][2].props.e[j][2].k = "lazyref"
FuzzReturnsWhenCyclesCanEnd ==
  (pc = "fuzzing" /\ ~Threw(valid) /\ ~Endless) ~> (pc \in {"fuzzed", "raised"})

-----------------------------------------------------------------------------
(* The day of the month in the timestamp check.                             *)

\* C29: the timestamp check rejects every text whose day of the month is
\* 00: a text in the date-time grammar is accepted only if the day is at
\* least 1 and at most the days of the month, as month 00 is rejected.
C29_DayZeroRejected ==
  (pc = "checked" /\ valid.k = "timestamp" /\ out # Idle /\ out.shape \in GrammarShapes) =>
    /\ ok = "true" => (1 <= out.day /\ out.day <= DaysInMonth(out.year, out.month))
    /\ ok = "true" => 1 <= out.month

\* month 00 is rejected, and so is a day past the end of the month
MonthZeroRejected ==
  (pc = "checked" /\ valid.k = "timestamp" /\ out # Idle /\ ok = "true") =>
    /\ 1 <= out.month
    /\ out.day <= DaysInMonth(out.year, out.month)

\* day 00 is accepted whenever the other fields are
DayZeroAccepted ==
  (pc = "checked" /\ valid.k = "timestamp" /\ out # Idle /\ out.shape \in GrammarShapes
     /\ out.day = 0) =>
    ((ok = "true") <=>
       /\ out.month \in 1..12
       /\ out.hour < 24 /\ out.minute < 60 /\ out.second <= 60)

-----------------------------------------------------------------------------
(* One entry per violation, in order, with the whole path.                  *)

RECURSIVE Flat(_)
\* the sequences of ss one after the other
Flat(ss) == IF ss = <<>> THEN <<>> ELSE Head(ss) \o Flat(Tail(ss))

LeafKinds == {"empty", "boolean", "int", "float", "string", "timestamp", "enum"}

RECURSIVE Plain(_)
\* the node is made of elements, values and properties over leaves
Plain(node) ==
  CASE node.k \in LeafKinds -> TRUE
    [] node.k = "elements" -> Plain(node.element)
    [] node.k = "values" -> Plain(node.values)
    [] node.k = "properties" ->
         /\ \A i \in 1..Len(node.props.e) : Plain(node.props.e[i][2])
         /\ \A i \in 1..Len(node.oprops.e) : Plain(node.oprops.e[i][2])
    [] OTHER -> FALSE

RECURSIVE Violations(_, _, _, _)
\* for every violation of the plain node by v, in the order of the array
\* indices and of the keys, the number of containers above it
Violations(node, v, valids, depth) ==
  CASE node.k \in LeafKinds -> IF guard(node, v, valids) = "true" THEN <<>> ELSE <<depth>>
    [] node.k = "elements" ->
         IF v.t # "array" THEN <<depth>>
         ELSE Flat([i \in 1..Len(v.a) |-> Violations(node.element, v.a[i], valids, depth + 1)])
    [] node.k = "values" ->
         IF ~isRecord(v) THEN <<depth>>
         ELSE Flat([i \in 1..Len(v.e) |-> Violations(node.values, v.e[i][2], valids, depth + 1)])
    [] node.k = "properties" ->
         IF ~isRecord(v) THEN <<depth>>
         ELSE Flat([i \in 1..Len(node.props.e) |->
                      IF Get(v.e, node.props.e[i][1]) = Undefined THEN <<depth>>
                      ELSE Violations(node.props.e[i][2], Get(v.e, node.props.e[i][1]),
                                      valids, depth + 1)])
              \o Flat([i \in 1..Len(node.oprops.e) |->
                      IF Get(v.e, node.oprops.e[i][1]) = Undefined THEN <<>>
                      ELSE Violations(node.oprops.e[i][2], Get(v.e, node.oprops.e[i][1]),
                                      valids, depth + 1)])
              \o (IF node.additional THEN <<>>
                  ELSE Flat([i \in 1..Len(v.e) |->
                              IF v.e[i][1] \in node.keys THEN <<>> ELSE <<depth + 1>>]))

\* C30: the error enumeration yields exactly one entry per violation: for an
\* elements node and an array it is, in the order of the indices, the inner
\* entries of each element with the segment [i] appended to the path; and
\* under elements, values and properties nodes every violation gives one
\* entry whose path has as many segments as there are containers above it,
\* so a single malformed leaf under n containers gives one entry of n
\* segments.
C30_OneEntryPerViolation ==
  (pc = "checked" /\ ~Threw(valid) /\ errors.thrown = "") =>
    /\ (valid.k = "elements" /\ inp.t = "array") =>
         errors.errs =
           Flat([i \in 1..Len(inp.a) |->
                   LET inner == pathErrors(valid.element, inp.a[i], validDefs, Len(validDefs)).errs
                   IN [j \in 1..Len(inner) |->
                         Err(inner[j].path \o <<"[" \o ToString(i - 1) \o "]">>, inner[j].msg)]])
    /\ Plain(valid) =>
         [i \in 1..Len(errors.errs) |-> Len(errors.errs[i].path)]
           = Violations(valid, inp, validDefs, 0)

\* two elements of an array of arrays: the first is right, the second has
\* two malformed members, reported in their order under [1][0] and [1][1]
C30_Witness ==
  /\ pc = "checked"
  /\ valid.k = "elements" /\ valid.element.k = "elements"
  /\ inp = Arr(<<Arr(<<IntNum(0)>>), Arr(<<IntNum(300), Str("x")>>)>>)
  /\ Len(errors.errs) = 2
  /\ errors.errs[1].path = <<"[0]", "[1]">>
  /\ errors.errs[2].path = <<"[1]", "[1]">>

\* a single malformed leaf under three containers was reported once, with
\* three segments
SingleLeafUnderThree ==
  /\ pc = "checked"
  /\ Plain(valid)
  /\ valid.k = "properties"
  /\ Violations(valid, inp, validDefs, 0) = <<3>>
  /\ Len(errors.errs) = 1
  /\ Len(errors.errs[1].path) = 3

====
